---- MODULE Spec2Model ----
(***************************************************************************)
(* Humid-air mixing engine of psychroflow (src/psychroflow.py).            *)
(* The last part models the state library that the engine is being moved  *)
(* to: src/psychrostate.py, src/waterstate.py and src/humidair.py.         *)
(*                                                                         *)
(* The Python code computes on IEEE doubles.  Here every physical quantity *)
(* is a scaled integer and every product or quotient is rounded to the     *)
(* nearest unit (MulDiv), the way a float operation rounds to the nearest  *)
(* representable value:                                                    *)
(*   temperature            1e-3 degC        (t_dry_bulb = 20000 is 20 C)  *)
(*   pressure               1e-2 Pa                                        *)
(*   humidity ratio, rel_hum 1e-6                                          *)
(*   specific enthalpy      1 J/kg                                         *)
(*   moist_air_volume       1e-6 m3/kg                                     *)
(*   density of water       1e-2 kg/m3                                     *)
(*   mass flow              1e-6 kg/s                                      *)
(*   enthalpy flow          1 W                                            *)
(*   volume flow of air     1e-7 m3/s                                      *)
(*   volume flow of water   1e-11 m3/s                                     *)
(* The transcendental correlations (exp, fractional powers) are tabulated  *)
(* from the source formulas at every integer degC of their domain and      *)
(* interpolated linearly in between.                                       *)
(*                                                                         *)
(* A call that can raise yields a record: Ok(v) for a returned value,      *)
(* Raise(e, m, at) for an exception.  A Python local x = e that is read    *)
(* more than once is bound as  The({ ... x ... : x \in {e} }),  which       *)
(* computes e once; the statements of a function body therefore read from  *)
(* the last binding of a definition (the first assignment) upwards.        *)
(***************************************************************************)
EXTENDS Integers, Sequences, FiniteSets, TLC

\* ------------------------------------------------------------ arithmetic

\* The one element of a one-element set.
The(S) == CHOOSE x \in S : TRUE

Abs(x) == IF x < 0 THEN -x ELSE x

Max(a, b) == IF a >= b THEN a ELSE b

Min(a, b) == IF a <= b THEN a ELSE b

HrUnit == 10^6

\* <<q, r>> with a*b = q*c + r and 0 <= r < c, for 0 <= a < c and b >= 0,
\* without an intermediate above 2^31: Horner over the digits of b to the
\* base B, where (2*B - 1) * c < 2^31.
RECURSIVE MulDivMod(_, _, _, _)
MulDivMod(a, b, c, B) ==
  IF b = 0 THEN <<0, 0>>
  ELSE The({ LET t == p[2] * B + a * (b % B)
             IN  <<p[1] * B + t \div c, t % c>>
           : p \in {MulDivMod(a, b \div B, c, B)} })

\* a*b/c rounded to the nearest integer (half away from zero), c # 0 and
\* |c| < 7 * 10^8.
MulDiv(a, b, c) ==
  LET x  == Max(Abs(a), Abs(b))
      y  == Min(Abs(a), Abs(b))
      uc == Abs(c)
      s  == IF ((a < 0) = (b < 0)) = (c > 0) THEN 1 ELSE -1
  IN  IF y = 0 \/ x <= 2000000000 \div y
      THEN s * ((x * y + uc \div 2) \div uc)
      ELSE The({ s * ((x \div uc) * y + p[1] + (IF 2 * p[2] >= uc THEN 1 ELSE 0))
               : p \in {MulDivMod(x % uc, y, uc,
                                  IF uc < 65000000 THEN 16
                                  ELSE IF uc < 300000000 THEN 4 ELSE 2)} })

\* math.isclose(a, b) with the default rel_tol = 1e-09 and abs_tol = 0.0
isclose(a, b) ==
  a = b \/ Abs(a - b) <= Max(Abs(a), Abs(b)) \div 10^9

\* ------------------------------------------------------------ exceptions

\* The value of a call that returned v.
Ok(v) == [exc |-> "none", msg |-> "", at |-> "", v |-> v]

\* The outcome of a call that raised exception type e with message m; at is
\* the function whose line raised it (the innermost frame of the traceback).
\* A Python exception built as ExcType("message") carries nothing else.
Raise(e, m, at) == [exc |-> e, msg |-> m, at |-> at, v |-> 0]

Raised(r) == r.exc # "none"

\* ------------------------------------------------------------ constants

STANDARD_PRESSURE == 10132500

\* ------------------------------------------------------------ correlations

\* pc * exp(...) of get_sat_vap_pressure at t = -50, -49, ..., 150 degC, in 1e-2 Pa
SatVapPressureTable ==
  << 645, 722, 807, 902, 1007, 1123, 1250, 1391,
     1546, 1717, 1905, 2111, 2337, 2585, 2857, 3154,
     3479, 3834, 4222, 4644, 5105, 5606, 6152, 6745,
     7389, 8088, 8846, 9668, 10557, 11520, 12560, 13685,
     14898, 16208, 17620, 19140, 20778, 22539, 24433, 26468,
     28653, 30998, 33512, 36207, 39092, 42181, 45485, 49017,
     52791, 56821, 61121, 65708, 70597, 75805, 81351, 87253,
     93530, 100203, 107292, 114821, 122811, 131288, 140275, 149799,
     159887, 170568, 181870, 193824, 206461, 219815, 233919, 248810,
     264522, 281096, 298569, 316982, 336379, 356802, 378298, 400911,
     424692, 449690, 475956, 503543, 532508, 562906, 594796, 628238,
     663295, 700031, 738511, 778804, 820980, 865110, 911270, 959534,
     1009981, 1062693, 1117751, 1175240, 1235248, 1297864, 1363180, 1431291,
     1502293, 1576284, 1653368, 1733647, 1817228, 1904222, 1994738, 2088893,
     2186802, 2288587, 2394368, 2504273, 2618428, 2736965, 2860018, 2987723,
     3120220, 3257651, 3400162, 3547901, 3701020, 3859673, 4024018, 4194216,
     4370430, 4552827, 4741578, 4936856, 5138837, 5347701, 5563632, 5786815,
     6017439, 6255699, 6501790, 6755912, 7018268, 7289064, 7568510, 7856819,
     8154209, 8460899, 8777112, 9103076, 9439022, 9785184, 10141799, 10509109,
     10887359, 11276796, 11677673, 12090245, 12514772, 12951516, 13400744, 13862725,
     14337734, 14826047, 15327946, 15843715, 16373643, 16918021, 17477145, 18051314,
     18640832, 19246004, 19867142, 20504560, 21158575, 21829508, 22517685, 23223435,
     23947090, 24688987, 25449465, 26228868, 27027544, 27845844, 28684121, 29542736,
     30422049, 31322427, 32244239, 33187859, 34153663, 35142032, 36153350, 37188005,
     38246389, 39328896, 40435926, 41567881, 42725167, 43908194, 45117375, 46353128,
     47615872 >>

\* get_density_water at t = 0, 1, ..., 150 degC, in 1e-2 kg/m3
DensityWaterTable ==
  << 99979, 99985, 99989, 99991, 99992, 99991, 99989, 99985,
     99980, 99973, 99965, 99956, 99945, 99933, 99920, 99905,
     99890, 99873, 99855, 99836, 99816, 99795, 99772, 99749,
     99725, 99700, 99674, 99647, 99619, 99590, 99560, 99530,
     99498, 99466, 99433, 99399, 99364, 99328, 99292, 99255,
     99217, 99178, 99139, 99099, 99058, 99017, 98975, 98932,
     98888, 98844, 98799, 98754, 98707, 98661, 98613, 98565,
     98516, 98467, 98417, 98367, 98315, 98264, 98211, 98159,
     98105, 98051, 97997, 97941, 97886, 97830, 97773, 97715,
     97658, 97599, 97540, 97481, 97421, 97361, 97300, 97238,
     97176, 97114, 97051, 96987, 96923, 96859, 96794, 96728,
     96662, 96596, 96529, 96462, 96394, 96326, 96257, 96188,
     96118, 96048, 95977, 95906, 95835, 95763, 95690, 95617,
     95544, 95470, 95396, 95321, 95246, 95171, 95095, 95018,
     94941, 94864, 94786, 94708, 94630, 94551, 94471, 94391,
     94311, 94230, 94149, 94067, 93985, 93903, 93820, 93736,
     93652, 93568, 93484, 93399, 93313, 93227, 93141, 93054,
     92967, 92879, 92791, 92703, 92614, 92524, 92435, 92344,
     92254, 92163, 92071, 91979, 91887, 91794, 91701 >>

\* get_enthalpy_water at t = 0, 1, ..., 150 degC, in J/kg
EnthalpyWaterTable ==
  << -28, 4182, 8391, 12599, 16804, 21007, 25209, 29410,
     33608, 37806, 42002, 46196, 50389, 54582, 58773, 62963,
     67151, 71339, 75526, 79713, 83898, 88082, 92266, 96450,
     100632, 104814, 108996, 113177, 117357, 121538, 125717, 129897,
     134076, 138255, 142434, 146613, 150791, 154970, 159148, 163327,
     167505, 171683, 175862, 180041, 184219, 188398, 192577, 196756,
     200936, 205116, 209296, 213476, 217657, 221838, 226019, 230201,
     234383, 238565, 242749, 246932, 251116, 255301, 259486, 263671,
     267857, 272044, 276232, 280420, 284608, 288797, 292987, 297178,
     301369, 305561, 309754, 313948, 318142, 322337, 326533, 330729,
     334927, 339125, 343324, 347524, 351725, 355927, 360130, 364333,
     368538, 372743, 376950, 381157, 385366, 389575, 393786, 397998,
     402210, 406424, 410639, 414855, 419072, 423291, 427510, 431731,
     435953, 440176, 444401, 448627, 452854, 457083, 461312, 465544,
     469777, 474011, 478246, 482484, 486722, 490963, 495204, 499448,
     503693, 507940, 512189, 516439, 520691, 524945, 529201, 533459,
     537718, 541980, 546244, 550509, 554777, 559047, 563319, 567594,
     571871, 576150, 580431, 584715, 589002, 593291, 597582, 601876,
     606173, 610473, 614776, 619081, 623390, 627701, 632016 >>

\* Linear interpolation of a table given at integer degC, first entry at t0 degC.
Interpolate(tab, t0, t) ==
  IF t % 1000 = 0
  THEN tab[t \div 1000 - t0 + 1]
  ELSE tab[t \div 1000 - t0 + 1]
         + MulDiv(tab[t \div 1000 - t0 + 2] - tab[t \div 1000 - t0 + 1], t % 1000, 1000)

get_sat_vap_pressure(t_dry_bulb) ==
  IF -50000 > t_dry_bulb \/ 150000 < t_dry_bulb
  THEN Raise("ValueError", "Invalid temperature range -50<=t<=150", "get_sat_vap_pressure")
  ELSE Ok(Interpolate(SatVapPressureTable, -50, t_dry_bulb))

get_density_water(t) ==
  IF 10 > t \/ 150000 < t
  THEN Raise("ValueError", "Temperature range: 0.01 < T < 150", "get_density_water")
  ELSE Ok(Interpolate(DensityWaterTable, 0, t))

get_enthalpy_water(t) ==
  IF 10 > t \/ 150000 < t
  THEN Raise("ValueError", "Temperature range: 0.01 < T < 150", "get_enthalpy_water")
  ELSE Ok(Interpolate(EnthalpyWaterTable, 0, t))

\* ------------------------------------------------------------ psychrometrics

get_vap_pres_from_rel_hum(t_dry_bulb, rel_hum) ==
  IF rel_hum < 0 \/ rel_hum > HrUnit
  THEN Raise("ValueError", "Relative humidity is outside range [0, 1]",
             "get_vap_pres_from_rel_hum")
  ELSE The({ IF Raised(sat_vap_pressure) THEN sat_vap_pressure
             ELSE Ok(MulDiv(rel_hum, sat_vap_pressure.v, HrUnit))
           : sat_vap_pressure \in {get_sat_vap_pressure(t_dry_bulb)} })

get_hum_ratio_from_vap_press(vap_pres, pressure) ==
  IF 0 > vap_pres
  THEN Raise("ValueError", "Partial pressure of water vapor in moist air cannot be negative",
             "get_hum_ratio_from_vap_press")
  ELSE IF pressure - vap_pres = 0
  THEN Raise("ZeroDivisionError", "float division by zero", "get_hum_ratio_from_vap_press")
  ELSE Ok(MulDiv(621945, vap_pres, pressure - vap_pres))

get_vap_press_from_hum_ratio(hum_ratio, pressure) ==
  IF hum_ratio < 0
  THEN Raise("ValueError", "Humidity ratio can not be negative",
             "get_vap_press_from_hum_ratio")
  ELSE Ok(MulDiv(pressure, hum_ratio, 621945 + hum_ratio))

get_hum_ratio_from_rel_hum(t_dry_bulb, rel_hum, pressure) ==
  IF rel_hum < 0 \/ rel_hum > HrUnit
  THEN Raise("ValueError", "Relative humidity is outside range [0, 1]",
             "get_hum_ratio_from_rel_hum")
  ELSE The({ IF Raised(vap_pres) THEN vap_pres
             ELSE get_hum_ratio_from_vap_press(vap_pres.v, pressure)
           : vap_pres \in {get_vap_pres_from_rel_hum(t_dry_bulb, rel_hum)} })

\* t_tr = 0.01 degC is 10 grid steps
get_moist_air_enthalpy(t_dry_bulb, hum_ratio) ==
  IF hum_ratio < 0
  THEN Raise("ValueError", "Humidity ratio cannot be negative", "get_moist_air_enthalpy")
  ELSE Ok(MulDiv(10046, t_dry_bulb - 10, 10000)
          + MulDiv(hum_ratio, 2500900 + MulDiv(1863, t_dry_bulb - 10, 1000), HrUnit))

\* 287.05 * (t_dry_bulb + 273.15) / pressure is the volume of the dry air
get_moist_air_volume(t_dry_bulb, hum_ratio, pressure) ==
  IF hum_ratio < 0
  THEN Raise("ValueError", "Humidity ratio cannot be negative", "get_moist_air_volume")
  ELSE The({ Ok(dry + MulDiv(dry, hum_ratio, 621945))
           : dry \in {MulDiv(28705000, t_dry_bulb + 273150, pressure)} })

get_sat_hum_ratio(t_dry_bulb, pressure) ==
  The({ IF Raised(sat_vap_pressure) THEN sat_vap_pressure
        ELSE IF sat_vap_pressure.v > pressure
        THEN Raise("ValueError", "sat_vap_pressure > pressure; no saturation possible",
                   "get_sat_hum_ratio")
        ELSE IF pressure - sat_vap_pressure.v = 0
        THEN Raise("ZeroDivisionError", "float division by zero", "get_sat_hum_ratio")
        ELSE Ok(MulDiv(621945, sat_vap_pressure.v, pressure - sat_vap_pressure.v))
      : sat_vap_pressure \in {get_sat_vap_pressure(t_dry_bulb)} })

get_sat_air_enthalpy(t_dry_bulb, pressure) ==
  The({ IF Raised(sat_hum_ratio) THEN sat_hum_ratio
        ELSE get_moist_air_enthalpy(t_dry_bulb, sat_hum_ratio.v)
      : sat_hum_ratio \in {get_sat_hum_ratio(t_dry_bulb, pressure)} })

get_rel_hum_from_vap_pressure(t_dry_bulb, vap_pres) ==
  IF vap_pres < 0
  THEN Raise("ValueError", "Partial pressure of water vapor in moist air cannot be negative",
             "get_rel_hum_from_vap_pressure")
  ELSE The({ IF Raised(sat_vap_pressure) THEN sat_vap_pressure
             ELSE IF sat_vap_pressure.v = 0
             THEN Raise("ZeroDivisionError", "float division by zero",
                        "get_rel_hum_from_vap_pressure")
             ELSE Ok(MulDiv(vap_pres, HrUnit, sat_vap_pressure.v))
           : sat_vap_pressure \in {get_sat_vap_pressure(t_dry_bulb)} })

\* specific enthalpy of an air water mixture at equilibrium, J / kg(Air + Water);
\* h_condensed is enthalpy_ice at t_dry_bulb <= 0 and enthalpy_water above
get_tot_enthalpy_air_water_mix(hum_ratio, t_dry_bulb, pressure) ==
  The({ IF Raised(sat_hum_ratio) THEN sat_hum_ratio
        ELSE IF hum_ratio <= sat_hum_ratio.v
        THEN \* unsaturated air
             The({ IF Raised(moist_air_enthalpy) THEN moist_air_enthalpy
                   ELSE Ok(MulDiv(moist_air_enthalpy.v, HrUnit, HrUnit + hum_ratio))
                 : moist_air_enthalpy \in {get_moist_air_enthalpy(t_dry_bulb, hum_ratio)} })
        ELSE The({ IF Raised(enthalpy_gas) THEN enthalpy_gas
                   ELSE The({ IF Raised(h_condensed) THEN h_condensed
                              ELSE Ok(MulDiv(MulDiv(enthalpy_gas.v,
                                                    HrUnit + hum_ratio - sat_hum_ratio.v,
                                                    HrUnit)
                                               + MulDiv(sat_hum_ratio.v, h_condensed.v, HrUnit),
                                             HrUnit, HrUnit + hum_ratio))
                            : h_condensed \in
                                { IF t_dry_bulb <= 0
                                  THEN \* saturated air over ice
                                       Ok(-333400 + MulDiv(207, t_dry_bulb - 10, 100))
                                  ELSE \* saturated air over liquid water
                                       get_enthalpy_water(t_dry_bulb) } })
                 : enthalpy_gas \in {get_sat_air_enthalpy(t_dry_bulb, pressure)} })
      : sat_hum_ratio \in {get_sat_hum_ratio(t_dry_bulb, pressure)} })

\* ------------------------------------------------------------ root finding

Sign(x) == IF x < 0 THEN -1 ELSE IF x > 0 THEN 1 ELSE 0

\* The two functions handed to optimize.root_scalar, each with the values its
\* closure captures:
\*   fun of get_t_dew_point_from_vap_pressure: vap_pres - get_sat_vap_pressure(t)
\*   fun of get_temp_from_tot_enthalpy_air_water_mix:
\*     enthalpy - get_tot_enthalpy_air_water_mix(hum_ratio, t, pressure)
fun(f, t) ==
  The({ IF Raised(y) THEN y
        ELSE IF f.of = "get_t_dew_point_from_vap_pressure"
        THEN Ok(f.vap_pres - y.v)
        ELSE Ok(f.enthalpy - y.v)
      : y \in { IF f.of = "get_t_dew_point_from_vap_pressure"
                THEN get_sat_vap_pressure(t)
                ELSE get_tot_enthalpy_air_water_mix(f.hum_ratio, t, f.pressure) } })

\* The bracketing iteration of optimize.root_scalar on the temperature grid:
\* the bracket is halved, keeping a sign change of fun inside, until its ends
\* are one grid step apart; the end with the smaller residual is the root.
\* An exception raised by fun propagates.
RECURSIVE bracket_iterate(_, _, _, _, _)
bracket_iterate(f, lo, flo, hi, fhi) ==
  IF hi - lo <= 1
  THEN Ok(IF Abs(fhi) < Abs(flo) THEN hi ELSE lo)
  ELSE LET mid == (lo + hi) \div 2
       IN  The({ IF Raised(fmid) THEN fmid
                 ELSE IF fmid.v = 0 THEN Ok(mid)
                 ELSE IF Sign(fmid.v) = Sign(flo)
                 THEN bracket_iterate(f, mid, fmid.v, hi, fhi)
                 ELSE bracket_iterate(f, lo, flo, mid, fmid.v)
               : fmid \in {fun(f, mid)} })

\* optimize.root_scalar(fun, bracket=[lo, hi]): the residual at both ends, the
\* sign test, then the iteration.  The iteration always ends at a sign change,
\* so the result is always "converged".
root_scalar(f, lo, hi) ==
  The({ IF Raised(flo) THEN flo
        ELSE The({ IF Raised(fhi) THEN fhi
                   ELSE IF flo.v = 0 THEN Ok(lo)
                   ELSE IF fhi.v = 0 THEN Ok(hi)
                   ELSE IF Sign(flo.v) = Sign(fhi.v)
                   THEN Raise("ValueError", "f(a) and f(b) must have different signs",
                              "root_scalar")
                   ELSE bracket_iterate(f, lo, flo.v, hi, fhi.v)
                 : fhi \in {fun(f, hi)} })
      : flo \in {fun(f, lo)} })

\* bracket=[-50, 150]
get_t_dew_point_from_vap_pressure(vap_pres) ==
  IF vap_pres < 0
  THEN Raise("ValueError", "Partial pressure of water vapor in moist air cannot be negative",
             "get_t_dew_point_from_vap_pressure")
  ELSE IF vap_pres < get_sat_vap_pressure(-50000).v
  THEN Ok(-50000)
  ELSE root_scalar([of |-> "get_t_dew_point_from_vap_pressure", vap_pres |-> vap_pres],
                   -50000, 150000)

\* bracket=[-50, 99]
get_temp_from_tot_enthalpy_air_water_mix(hum_ratio, enthalpy, pressure) ==
  root_scalar([of |-> "get_temp_from_tot_enthalpy_air_water_mix",
               hum_ratio |-> hum_ratio, enthalpy |-> enthalpy, pressure |-> pressure],
              -50000, 99000)

\* ------------------------------------------------------------ HumidAirState

\* cls(pressure, hum_ratio, t_dry_bulb, t_dew_point, rel_hum, vap_pres,
\*     moist_air_enthalpy, moist_air_volume)
HumidAirState(pressure, hum_ratio, t_dry_bulb, t_dew_point, rel_hum, vap_pres, moist_air_enthalpy, moist_air_volume) ==
  [pressure |-> pressure, hum_ratio |-> hum_ratio, t_dry_bulb |-> t_dry_bulb,
   t_dew_point |-> t_dew_point, rel_hum |-> rel_hum, vap_pres |-> vap_pres,
   moist_air_enthalpy |-> moist_air_enthalpy, moist_air_volume |-> moist_air_volume]

\* "if 0 > rel_hum > 1" is Python's chained comparison: 0 > rel_hum and rel_hum > 1
from_t_dry_bulb_rel_hum(t_dry_bulb, rel_hum, pressure) ==
  IF 0 > rel_hum /\ rel_hum > HrUnit
  THEN Raise("ValueError", "Wet bulb temperature is above dry bulb temperature",
             "from_t_dry_bulb_rel_hum")
  ELSE
  The({ IF Raised(hum_ratio) THEN hum_ratio
        ELSE
        The({ IF Raised(vap_pres) THEN vap_pres
              ELSE
              The({ IF Raised(t_dew_point) THEN t_dew_point
                    ELSE IF Raised(moist_air_enthalpy) THEN moist_air_enthalpy
                    ELSE IF Raised(moist_air_volume) THEN moist_air_volume
                    ELSE Ok(HumidAirState(pressure, hum_ratio.v, t_dry_bulb, t_dew_point.v,
                                          rel_hum, vap_pres.v, moist_air_enthalpy.v,
                                          moist_air_volume.v))
                  : t_dew_point \in {get_t_dew_point_from_vap_pressure(vap_pres.v)},
                    moist_air_enthalpy \in {get_moist_air_enthalpy(t_dry_bulb, hum_ratio.v)},
                    moist_air_volume \in
                      {get_moist_air_volume(t_dry_bulb, hum_ratio.v, pressure)} })
            : vap_pres \in {get_vap_press_from_hum_ratio(hum_ratio.v, pressure)} })
      : hum_ratio \in {get_hum_ratio_from_rel_hum(t_dry_bulb, rel_hum, pressure)} })

from_t_dry_bulb_hum_ratio(t_dry_bulb, hum_ratio, pressure) ==
  IF 0 > hum_ratio
  THEN Raise("ValueError", "Humidity ratio cannot be negative", "from_t_dry_bulb_hum_ratio")
  ELSE
  The({ IF Raised(vap_pres) THEN vap_pres
        ELSE
        The({ IF Raised(rel_hum) THEN rel_hum
              ELSE IF Raised(t_dew_point) THEN t_dew_point
              ELSE IF Raised(moist_air_enthalpy) THEN moist_air_enthalpy
              ELSE IF Raised(moist_air_volume) THEN moist_air_volume
              ELSE Ok(HumidAirState(pressure, hum_ratio, t_dry_bulb, t_dew_point.v,
                                    rel_hum.v, vap_pres.v, moist_air_enthalpy.v,
                                    moist_air_volume.v))
            : rel_hum \in {get_rel_hum_from_vap_pressure(t_dry_bulb, vap_pres.v)},
              t_dew_point \in {get_t_dew_point_from_vap_pressure(vap_pres.v)},
              moist_air_enthalpy \in {get_moist_air_enthalpy(t_dry_bulb, hum_ratio)},
              moist_air_volume \in {get_moist_air_volume(t_dry_bulb, hum_ratio, pressure)} })
      : vap_pres \in {get_vap_press_from_hum_ratio(hum_ratio, pressure)} })

\* moist_air_enthalpy / (1 + hum_ratio) divides by zero at hum_ratio = -1, which
\* get_vap_press_from_hum_ratio has rejected before.
from_hum_ratio_enthalpy(hum_ratio, moist_air_enthalpy, pressure) ==
  The({ IF Raised(vap_pres) THEN vap_pres
        ELSE
        The({ IF Raised(t_dry_bulb) THEN t_dry_bulb
              ELSE
              The({ IF Raised(t_dew_point) THEN t_dew_point
                    ELSE IF Raised(rel_hum) THEN rel_hum
                    ELSE IF Raised(moist_air_volume) THEN moist_air_volume
                    ELSE Ok(HumidAirState(pressure, hum_ratio, t_dry_bulb.v, t_dew_point.v,
                                          rel_hum.v, vap_pres.v, moist_air_enthalpy,
                                          moist_air_volume.v))
                  : t_dew_point \in {get_t_dew_point_from_vap_pressure(vap_pres.v)},
                    rel_hum \in {get_rel_hum_from_vap_pressure(t_dry_bulb.v, vap_pres.v)},
                    moist_air_volume \in
                      {get_moist_air_volume(t_dry_bulb.v, hum_ratio, pressure)} })
            : t_dry_bulb \in
                {get_temp_from_tot_enthalpy_air_water_mix(
                   hum_ratio, MulDiv(moist_air_enthalpy, HrUnit, HrUnit + hum_ratio),
                   pressure)} })
      : vap_pres \in {get_vap_press_from_hum_ratio(hum_ratio, pressure)} })

\* ------------------------------------------------------------ flows

MassUnit == 10^6

\* A HumidAirFlow whose __post_init__ takes the enthalpy per total mass:
\* tot_enthalpy_flow = moist_air_enthalpy * mass_flow.
HumidAirFlow_enthalpy_of_total_mass(volume_flow, humid_air_state) ==
  IF humid_air_state.moist_air_volume = 0
  THEN Raise("ZeroDivisionError", "float division by zero", "HumidAirFlow")
  ELSE
  The({ The({ Ok([volume_flow |-> volume_flow,
                  humid_air_state |-> humid_air_state,
                  mass_flow_air |-> mass_flow_air,
                  mass_flow_water |-> mass_flow_water,
                  mass_flow |-> mass_flow_air + mass_flow_water,
                  tot_enthalpy_flow |->
                    MulDiv(humid_air_state.moist_air_enthalpy,
                           mass_flow_air + mass_flow_water, MassUnit)])
            : mass_flow_water \in {MulDiv(humid_air_state.hum_ratio, mass_flow_air, HrUnit)} })
      : mass_flow_air \in {MulDiv(volume_flow, 10^5, humid_air_state.moist_air_volume)} })

\* HumidAirFlow(volume_flow, humid_air_state) with __post_init__
HumidAirFlow(volume_flow, humid_air_state) ==
  IF humid_air_state.moist_air_volume = 0
  THEN Raise("ZeroDivisionError", "float division by zero", "HumidAirFlow")
  ELSE
  The({ The({ Ok([volume_flow |-> volume_flow,
                  humid_air_state |-> humid_air_state,
                  mass_flow_air |-> mass_flow_air,
                  mass_flow_water |-> mass_flow_water,
                  mass_flow |-> mass_flow_air + mass_flow_water,
                  tot_enthalpy_flow |->
                    MulDiv(humid_air_state.moist_air_enthalpy, mass_flow_air, MassUnit)])
            : mass_flow_water \in {MulDiv(humid_air_state.hum_ratio, mass_flow_air, HrUnit)} })
      : mass_flow_air \in {MulDiv(volume_flow, 10^5, humid_air_state.moist_air_volume)} })

\* WaterState(temperature, pressure) with __post_init__
WaterState(temperature, pressure) ==
  The({ IF Raised(density) THEN density
        ELSE IF Raised(enthalpy) THEN enthalpy
        ELSE Ok([temperature |-> temperature, pressure |-> pressure,
                 density |-> density.v, enthalpy |-> enthalpy.v])
      : density \in {get_density_water(temperature)},
        enthalpy \in {get_enthalpy_water(temperature)} })

\* A WaterFlow that takes the volume flow for the mass flow, the density left
\* out.
WaterFlow_without_density(volume_flow, water_state) ==
  [volume_flow |-> volume_flow,
   water_state |-> water_state,
   mass_flow |-> volume_flow,
   tot_enthalpy_flow |-> MulDiv(water_state.enthalpy, volume_flow, MassUnit)]

\* WaterFlow(volume_flow, water_state) with __post_init__
WaterFlow(volume_flow, water_state) ==
  The({ [volume_flow |-> volume_flow,
         water_state |-> water_state,
         mass_flow |-> mass_flow,
         tot_enthalpy_flow |-> MulDiv(water_state.enthalpy, mass_flow, MassUnit)]
      : mass_flow \in {MulDiv(volume_flow, water_state.density, 10^7)} })

\* An AirWaterFlow whose __post_init__ never sets dry to False.
AirWaterFlow_always_dry(humid_air_flow, water_flow) ==
  IF ~isclose(humid_air_flow.humid_air_state.t_dry_bulb, water_flow.water_state.temperature)
  THEN Raise("ValueError", "Temperature of air- and waterflow must be equal!",
             "AirWaterFlow")
  ELSE IF ~isclose(humid_air_flow.humid_air_state.pressure, water_flow.water_state.pressure)
  THEN Raise("ValueError", "Pressure of air- and waterflow must be equal!", "AirWaterFlow")
  ELSE IF ~isclose(water_flow.mass_flow, 0)
          /\ ~isclose(humid_air_flow.humid_air_state.rel_hum, HrUnit)
  THEN Raise("ValueError", "Air over liquid water has to be saturated", "AirWaterFlow")
  ELSE Ok([humid_air_flow |-> humid_air_flow, water_flow |-> water_flow, dry |-> TRUE])

\* AirWaterFlow(humid_air_flow, water_flow) with __post_init__
AirWaterFlow(humid_air_flow, water_flow) ==
  IF ~isclose(humid_air_flow.humid_air_state.t_dry_bulb, water_flow.water_state.temperature)
  THEN Raise("ValueError", "Temperature of air- and waterflow must be equal!",
             "AirWaterFlow")
  ELSE IF ~isclose(humid_air_flow.humid_air_state.pressure, water_flow.water_state.pressure)
  THEN Raise("ValueError", "Pressure of air- and waterflow must be equal!", "AirWaterFlow")
  ELSE IF ~isclose(water_flow.mass_flow, 0)
  THEN IF ~isclose(humid_air_flow.humid_air_state.rel_hum, HrUnit)
       THEN Raise("ValueError", "Air over liquid water has to be saturated", "AirWaterFlow")
       ELSE Ok([humid_air_flow |-> humid_air_flow, water_flow |-> water_flow,
                dry |-> FALSE])
  ELSE Ok([humid_air_flow |-> humid_air_flow, water_flow |-> water_flow, dry |-> TRUE])

\* air water flow with humid air only
from_humid_air_flow(haf) ==
  The({ IF Raised(ws) THEN ws ELSE AirWaterFlow(haf, WaterFlow(0, ws.v))
      : ws \in {WaterState(haf.humid_air_state.t_dry_bulb, haf.humid_air_state.pressure)} })

\* The gas phase of from_m_air_m_water_tot_enthalpy_flow, in both branches:
\* HumidAirFlow(m_air * has.moist_air_volume, has)
gas_phase(m_air, has) ==
  IF Raised(has) THEN has
  ELSE HumidAirFlow(MulDiv(m_air, has.v.moist_air_volume, 10^5), has.v)

\* m_water / m_air and tot_enthalpy_flow / (m_air + m_water) divide by zero
from_m_air_m_water_tot_enthalpy_flow(m_air, m_water, tot_enthalpy_flow, pressure) ==
  IF m_air = 0 \/ m_air + m_water = 0
  THEN Raise("ZeroDivisionError", "float division by zero",
             "from_m_air_m_water_tot_enthalpy_flow")
  ELSE
  The({
    The({ IF Raised(t_dry_bulb) THEN t_dry_bulb
          ELSE
          The({ IF Raised(sat_hum_ratio) THEN sat_hum_ratio
                ELSE IF hum_ratio <= sat_hum_ratio.v
                THEN \* gas phase only
                     The({ IF Raised(haf) THEN haf ELSE from_humid_air_flow(haf.v)
                         : haf \in
                             {gas_phase(m_air,
                                        from_t_dry_bulb_hum_ratio(
                                          t_dry_bulb.v, hum_ratio, pressure))} })
                ELSE \* gas phase and liquid phase
                     The({ IF Raised(haf) THEN haf
                           ELSE
                           The({ IF Raised(ws) THEN ws
                                 ELSE AirWaterFlow(
                                        haf.v,
                                        WaterFlow(
                                          MulDiv(MulDiv(hum_ratio - sat_hum_ratio.v,
                                                        m_air, HrUnit),
                                                 10^7, ws.v.density),
                                          ws.v))
                               : ws \in {WaterState(t_dry_bulb.v, pressure)} })
                         : haf \in
                             {gas_phase(m_air,
                                        from_t_dry_bulb_rel_hum(
                                          t_dry_bulb.v, HrUnit, pressure))} })
              : sat_hum_ratio \in {get_sat_hum_ratio(t_dry_bulb.v, pressure)} })
        : t_dry_bulb \in
            {get_temp_from_tot_enthalpy_air_water_mix(
               hum_ratio, MulDiv(tot_enthalpy_flow, MassUnit, m_air + m_water), pressure)} })
    : hum_ratio \in {MulDiv(m_water, HrUnit, m_air)} })

\* from_mixing_two_humid_air_flows that sums the enthalpy flow of the first
\* flow twice: tot_enthalpy_flow = haf_in_1.tot_enthalpy_flow +
\* haf_in_1.tot_enthalpy_flow.
from_mixing_two_first_enthalpy_twice(haf_in_1, haf_in_2) ==
  IF isclose(haf_in_1.humid_air_state.pressure, haf_in_2.humid_air_state.pressure)
  THEN from_m_air_m_water_tot_enthalpy_flow(
         haf_in_1.mass_flow_air + haf_in_2.mass_flow_air,
         haf_in_1.mass_flow_water + haf_in_2.mass_flow_water,
         haf_in_1.tot_enthalpy_flow + haf_in_1.tot_enthalpy_flow,
         haf_in_1.humid_air_state.pressure)
  ELSE Raise("ValueError", "The pressure of the mixing air streams must be equal",
             "from_mixing_two_humid_air_flows")

\* The three sums are taken before the pressures are compared.
from_mixing_two_humid_air_flows(haf_in_1, haf_in_2) ==
  IF isclose(haf_in_1.humid_air_state.pressure, haf_in_2.humid_air_state.pressure)
  THEN from_m_air_m_water_tot_enthalpy_flow(
         haf_in_1.mass_flow_air + haf_in_2.mass_flow_air,
         haf_in_1.mass_flow_water + haf_in_2.mass_flow_water,
         haf_in_1.tot_enthalpy_flow + haf_in_2.tot_enthalpy_flow,
         haf_in_1.humid_air_state.pressure)
  ELSE Raise("ValueError", "The pressure of the mixing air streams must be equal",
             "from_mixing_two_humid_air_flows")

from_mixing_air_water(haf_in, wf_in) ==
  from_m_air_m_water_tot_enthalpy_flow(
    haf_in.mass_flow_air,
    haf_in.mass_flow_water + wf_in.mass_flow,
    haf_in.tot_enthalpy_flow + wf_in.tot_enthalpy_flow,
    haf_in.humid_air_state.pressure)

\* mix two humid air flows, raises error if there is condensation
mix_two_humid_air_flows(haf_in_1, haf_in_2) ==
  The({ IF Raised(awf) THEN awf
        ELSE IF awf.v.dry THEN Ok(awf.v.humid_air_flow)
        ELSE Raise("ValueError", "Condensation", "mix_two_humid_air_flows")
      : awf \in {from_mixing_two_humid_air_flows(haf_in_1, haf_in_2)} })

\* the loop of mix_humid_air_flows from haf_out over the flows hafs_in[i..]
RECURSIVE mix_loop(_, _, _)
mix_loop(haf_out, hafs_in, i) ==
  IF i > Len(hafs_in) THEN Ok(haf_out)
  ELSE The({ IF Raised(r) THEN r ELSE mix_loop(r.v, hafs_in, i + 1)
           : r \in {mix_two_humid_air_flows(haf_out, hafs_in[i])} })

mix_humid_air_flows(hafs_in) ==
  IF Len(hafs_in) = 0
  THEN Raise("IndexError", "list index out of range", "mix_humid_air_flows")
  ELSE mix_loop(hafs_in[1], hafs_in, 2)

\* from_hum_ratio_enthalpy is called without a pressure: STANDARD_PRESSURE
add_water_to_air_stream(haf, wf) ==
  IF haf.mass_flow_air = 0
  THEN Raise("ZeroDivisionError", "float division by zero", "add_water_to_air_stream")
  ELSE The({ IF Raised(has_out) THEN has_out
             ELSE HumidAirFlow(MulDiv(haf.mass_flow_air, has_out.v.moist_air_volume, 10^5),
                               has_out.v)
           : has_out \in
               {from_hum_ratio_enthalpy(
                  MulDiv(haf.mass_flow_water + wf.mass_flow, HrUnit, haf.mass_flow_air),
                  MulDiv(haf.tot_enthalpy_flow + wf.tot_enthalpy_flow, MassUnit,
                         haf.mass_flow_air),
                  STANDARD_PRESSURE)} })

\* ------------------------------------------------------------ the calls

\* Longest list handed to mix_humid_air_flows.
MaxFlows == 3

\* The humid air flows a caller builds: HumidAirFlow(volume_flow,
\* HumidAirState.from_t_dry_bulb_rel_hum(t_dry_bulb, rel_hum, pressure)), as
\* <<volume_flow, t_dry_bulb, rel_hum, pressure>>: 24000 m3/h at 44 degC and
\* 50 %, 6000 m3/h at 10 degC and 70 %, saturated flows at 40, 5 and 24.5 degC,
\* a large hot dry flow, a flow below the triple point, a flow that has stopped
\* and a flow at 900 hPa.
MeasuredFlows ==
  { <<66666667, 44000, 500000, STANDARD_PRESSURE>>,
    <<16666667, 10000, 700000, STANDARD_PRESSURE>>,
    <<27777778, 40000, 1000000, STANDARD_PRESSURE>>,
    <<27777778, 5000, 1000000, STANDARD_PRESSURE>>,
    <<27777778, 24500, 1000000, STANDARD_PRESSURE>>,
    <<138888889, 60000, 50000, STANDARD_PRESSURE>>,
    <<27777778, -10000, 500000, STANDARD_PRESSURE>>,
    <<0, 20000, 500000, STANDARD_PRESSURE>>,
    <<27777778, 20000, 500000, 9000000>> }

InputFlows ==
  { HumidAirFlow(x[1], from_t_dry_bulb_rel_hum(x[2], x[3], x[4]).v).v : x \in MeasuredFlows }

\* The water flows a caller builds: WaterFlow(volume_flow, WaterState(t)), none,
\* 0.02 l/s and 0.5 l/s at 15 degC, and 0.02 l/s at 900 hPa.
InputWaterFlows ==
  { WaterFlow(0, WaterState(15000, STANDARD_PRESSURE).v),
    WaterFlow(2000000, WaterState(15000, STANDARD_PRESSURE).v),
    WaterFlow(50000000, WaterState(15000, STANDARD_PRESSURE).v),
    WaterFlow(2000000, WaterState(15000, 9000000).v) }

InputLists == UNION { [1..n -> InputFlows] : n \in 1..MaxFlows }

\* No water flow is part of the call.
NoWaterFlow == [volume_flow |-> 0, mass_flow |-> 0, tot_enthalpy_flow |-> 0]

\* haf_out before mix_humid_air_flows has assigned it.
NoFlow == [volume_flow |-> 0]

\* held before a constructor of psychrostate.HumidAirState has returned.
NoState == [pressure |-> 0]

VARIABLES
  hafs_in,    \* the list of humid air flows the caller holds
  wf_in,      \* the water flow handed to the call, NoWaterFlow when it takes none
  op,         \* the function called, "" before the call
  pc,         \* "start", "loop" (inside mix_humid_air_flows), "done"
  i,          \* mix_humid_air_flows: index of the next flow of the loop
  haf_out,    \* mix_humid_air_flows: the accumulator of the loop
  result,     \* Ok(value) or Raise(...) of the finished call
  rootfinds,  \* calls of get_temp_from_tot_enthalpy_air_water_mix made so far
  args,       \* the arguments of a call of a library function, <<>> otherwise
  held,       \* the psychrostate.HumidAirState the caller holds, NoState if none
  alias       \* mix_humid_air_flows: k if haf_out is the object hafs_in[k], 0 if it
              \* is an object of its own

vars == <<hafs_in, wf_in, op, pc, i, haf_out, result, rootfinds, args, held, alias>>

Init ==
  /\ hafs_in \in InputLists
  /\ wf_in = NoWaterFlow
  /\ op = ""
  /\ pc = "start"
  /\ i = 0
  /\ haf_out = NoFlow
  /\ result = Ok(0)
  /\ rootfinds = 0
  /\ args = << >>
  /\ held = NoState
  /\ alias = 0

\* Whether a call that ended with r went as far as the temperature root
\* finding: it did unless it raised in a frame that comes before it.
ReachedRootFinding(r) ==
  ~(Raised(r) /\ r.at \in {"from_mixing_two_humid_air_flows",
                           "from_m_air_m_water_tot_enthalpy_flow",
                           "add_water_to_air_stream",
                           "get_vap_press_from_hum_ratio"})

\* The call of function name has ended with r.
Finish(name, r) ==
  /\ op' = name
  /\ pc' = "done"
  /\ \E returned \in {r} :
       /\ result' = returned
       /\ rootfinds' = rootfinds + (IF ReachedRootFinding(returned) THEN 1 ELSE 0)

\* AirWaterFlow.from_mixing_two_humid_air_flows(hafs_in[0], hafs_in[1])
CallFromMixingTwo ==
  /\ pc = "start"
  /\ Len(hafs_in) = 2
  /\ Finish("from_mixing_two_humid_air_flows",
            from_mixing_two_humid_air_flows(hafs_in[1], hafs_in[2]))
  /\ UNCHANGED <<args, held, alias, hafs_in, wf_in, i, haf_out>>

\* mix_two_humid_air_flows(hafs_in[0], hafs_in[1])
CallMixTwo ==
  /\ pc = "start"
  /\ Len(hafs_in) = 2
  /\ Finish("mix_two_humid_air_flows", mix_two_humid_air_flows(hafs_in[1], hafs_in[2]))
  /\ UNCHANGED <<args, held, alias, hafs_in, wf_in, i, haf_out>>

\* AirWaterFlow.from_mixing_air_water(hafs_in[0], wf)
CallFromMixingAirWater ==
  /\ pc = "start"
  /\ Len(hafs_in) = 1
  /\ \E wf \in InputWaterFlows :
       /\ wf_in' = wf
       /\ Finish("from_mixing_air_water", from_mixing_air_water(hafs_in[1], wf))
  /\ UNCHANGED <<args, held, alias, hafs_in, i, haf_out>>

\* add_water_to_air_stream(hafs_in[0], wf)
CallAddWater ==
  /\ pc = "start"
  /\ Len(hafs_in) = 1
  /\ \E wf \in InputWaterFlows :
       /\ wf_in' = wf
       /\ Finish("add_water_to_air_stream", add_water_to_air_stream(hafs_in[1], wf))
  /\ UNCHANGED <<args, held, alias, hafs_in, i, haf_out>>

\* sum(x.field for x in s)
RECURSIVE Sum(_, _)
Sum(s, field) ==
  IF s = <<>> THEN 0 ELSE s[1][field] + Sum(Tail(s), field)

\* The single aggregation of a whole list:
\* AirWaterFlow.from_m_air_m_water_tot_enthalpy_flow(sum of mass_flow_air, sum of
\* mass_flow_water, sum of tot_enthalpy_flow, pressure of the first flow)
from_all_humid_air_flows(hafs) ==
  from_m_air_m_water_tot_enthalpy_flow(
    Sum(hafs, "mass_flow_air"), Sum(hafs, "mass_flow_water"),
    Sum(hafs, "tot_enthalpy_flow"), hafs[1].humid_air_state.pressure)

CallFromTotals ==
  /\ pc = "start"
  /\ Finish("from_m_air_m_water_tot_enthalpy_flow", from_all_humid_air_flows(hafs_in))
  /\ UNCHANGED <<args, held, alias, hafs_in, wf_in, i, haf_out>>

\* mix_humid_air_flows whose loop runs over hafs_in instead of hafs_in[1:]: the
\* first flow is mixed with itself.
MixBegin_from_first ==
  /\ pc = "start"
  /\ op' = "mix_humid_air_flows"
  /\ pc' = "loop"
  /\ haf_out' = hafs_in[1]
  /\ i' = 1
  /\ alias' = 1
  /\ UNCHANGED <<args, held, hafs_in, wf_in, result, rootfinds>>

\* mix_humid_air_flows(hafs_in): haf_out = hafs_in[0]
MixBegin ==
  /\ pc = "start"
  /\ op' = "mix_humid_air_flows"
  /\ pc' = "loop"
  /\ haf_out' = hafs_in[1]
  /\ i' = 2
  /\ alias' = 1
  /\ UNCHANGED <<args, held, hafs_in, wf_in, result, rootfinds>>

\* one pass of the loop: haf_out = mix_two_humid_air_flows(haf_out, haf)
MixStep ==
  /\ pc = "loop"
  /\ i <= Len(hafs_in)
  /\ \E r \in {mix_two_humid_air_flows(haf_out, hafs_in[i])} :
       /\ rootfinds' = rootfinds + (IF ReachedRootFinding(r) THEN 1 ELSE 0)
       /\ IF Raised(r)
          THEN /\ result' = r
               /\ pc' = "done"
               /\ UNCHANGED <<haf_out, i, alias>>
          ELSE /\ haf_out' = r.v
               /\ i' = i + 1
               /\ alias' = 0
               /\ UNCHANGED <<result, pc>>
  /\ UNCHANGED <<args, held, hafs_in, wf_in, op>>

\* return haf_out
MixReturn ==
  /\ pc = "loop"
  /\ i > Len(hafs_in)
  /\ result' = Ok(haf_out)
  /\ pc' = "done"
  /\ UNCHANGED <<args, held, alias, hafs_in, wf_in, op, i, haf_out, rootfinds>>

\* The water flows a caller builds beside the humid air flow haf to construct
\* an AirWaterFlow: none or 0.02 l/s, at the temperature of haf or at 15 degC,
\* at the pressure of haf or at 900 hPa.
WaterFlowsBeside(haf) ==
  { WaterFlow(volume_flow, WaterState(temperature, pressure).v) :
      volume_flow \in {0, 2000000},
      temperature \in {t \in {haf.humid_air_state.t_dry_bulb, 15000} :
                         ~Raised(WaterState(t, STANDARD_PRESSURE))},
      pressure \in {haf.humid_air_state.pressure, 9000000} }

\* A construction of AirWaterFlow that skips __post_init__.
CallAirWaterFlow_unvalidated ==
  /\ pc = "start"
  /\ Len(hafs_in) = 1
  /\ \E wf \in WaterFlowsBeside(hafs_in[1]) :
       /\ wf_in' = wf
       /\ result' = Ok([humid_air_flow |-> hafs_in[1], water_flow |-> wf, dry |-> TRUE])
  /\ op' = "AirWaterFlow"
  /\ pc' = "done"
  /\ UNCHANGED <<args, held, alias, hafs_in, i, haf_out, rootfinds>>

\* AirWaterFlow(hafs_in[0], wf)
CallAirWaterFlow ==
  /\ pc = "start"
  /\ Len(hafs_in) = 1
  /\ \E wf \in WaterFlowsBeside(hafs_in[1]) :
       /\ wf_in' = wf
       /\ result' = AirWaterFlow(hafs_in[1], wf)
  /\ op' = "AirWaterFlow"
  /\ pc' = "done"
  /\ UNCHANGED <<args, held, alias, hafs_in, i, haf_out, rootfinds>>

\* air water flow with liquid water only
from_water_flow(wf) ==
  The({ IF Raised(has) THEN has
        ELSE The({ IF Raised(haf) THEN haf ELSE AirWaterFlow(haf.v, wf)
                 : haf \in {HumidAirFlow(0, has.v)} })
      : has \in {from_t_dry_bulb_rel_hum(wf.water_state.temperature, HrUnit,
                                          wf.water_state.pressure)} })

\* AirWaterFlow.from_water_flow(wf)
CallFromWaterFlow ==
  /\ pc = "start"
  /\ Len(hafs_in) = 1
  /\ \E wf \in InputWaterFlows :
       /\ wf_in' = wf
       /\ result' = from_water_flow(wf)
  /\ op' = "from_water_flow"
  /\ pc' = "done"
  /\ UNCHANGED <<args, held, alias, hafs_in, i, haf_out, rootfinds>>

Next ==
  \/ CallFromMixingTwo
  \/ CallMixTwo
  \/ CallFromMixingAirWater
  \/ CallAddWater
  \/ CallFromTotals
  \/ CallAirWaterFlow
  \/ CallFromWaterFlow
  \/ MixBegin
  \/ MixStep
  \/ MixReturn

Spec == Init /\ [][Next]_vars

\* ------------------------------------------------------------ the properties

\* The call has ended.
Done == pc = "done"

Returned == Done /\ ~Raised(result)

\* What went into the call: dry air, water (vapour and liquid), enthalpy.
InMassFlowAir == Sum(hafs_in, "mass_flow_air")

InMassFlowWater == Sum(hafs_in, "mass_flow_water") + wf_in.mass_flow

InEnthalpyFlow == Sum(hafs_in, "tot_enthalpy_flow") + wf_in.tot_enthalpy_flow

InPressure == hafs_in[1].humid_air_state.pressure

SamePressure ==
  \A k \in 1..Len(hafs_in) : isclose(hafs_in[k].humid_air_state.pressure, InPressure)

\* Every flow of the list carries dry air.
CarryDryAir == \A k \in 1..Len(hafs_in) : hafs_in[k].mass_flow_air > 0

\* Every flow of the list is at 0.01 degC or warmer, where liquid water exists.
AboveTriplePoint ==
  \A k \in 1..Len(hafs_in) : hafs_in[k].humid_air_state.t_dry_bulb >= 10

\* The equilibrium of what went in, as from_m_air_m_water_tot_enthalpy_flow
\* computes it: the humidity ratio m_water / m_air, the temperature solved from
\* the enthalpy, and the saturation humidity ratio at that temperature.  There
\* is none without dry air or when the temperature does not solve.
MixEquilibrium ==
  IF InMassFlowAir = 0 \/ InMassFlowAir + InMassFlowWater = 0
  THEN [exists |-> FALSE]
  ELSE The({ The({ IF Raised(t_dry_bulb) THEN [exists |-> FALSE]
                   ELSE [exists |-> TRUE,
                         hum_ratio |-> hum_ratio,
                         t_dry_bulb |-> t_dry_bulb.v,
                         sat_hum_ratio |-> get_sat_hum_ratio(t_dry_bulb.v, InPressure).v]
                 : t_dry_bulb \in
                     {get_temp_from_tot_enthalpy_air_water_mix(
                        hum_ratio,
                        MulDiv(InEnthalpyFlow, MassUnit, InMassFlowAir + InMassFlowWater),
                        InPressure)} })
           : hum_ratio \in {MulDiv(InMassFlowWater, HrUnit, InMassFlowAir)} })

\* a and b are equal within one part in a thousand and one unit.
Within(a, b) == Abs(a - b) <= Abs(b) \div 1000 + 1

\* Two humid air flows agree on dry-bulb temperature (0.01 degC), humidity ratio
\* (1e-5) and volume flow.
SameFlow(a, b) ==
  /\ Abs(a.humid_air_state.t_dry_bulb - b.humid_air_state.t_dry_bulb) <= 10
  /\ Abs(a.humid_air_state.hum_ratio - b.humid_air_state.hum_ratio) <= 10
  /\ Within(a.volume_flow, b.volume_flow)

\* Two calls have the same outcome: both raise, or both return the same flow.
SameOutcome(r1, r2) ==
  IF Raised(r1) \/ Raised(r2) THEN Raised(r1) /\ Raised(r2) ELSE SameFlow(r1.v, r2.v)

\* Every order of the list s.
Orders(s) ==
  { [k \in 1..Len(s) |-> s[p[k]]] :
      p \in { q \in [1..Len(s) -> 1..Len(s)] :
                \A a, b \in 1..Len(s) : a # b => q[a] # q[b] } }

\* C1: enthalpy conservation of mixing.  Whenever
\* AirWaterFlow.from_mixing_two_humid_air_flows or
\* AirWaterFlow.from_mixing_air_water returns, the enthalpy flow of the
\* result, humid_air_flow.tot_enthalpy_flow + water_flow.tot_enthalpy_flow,
\* equals the sum of the inputs' tot_enthalpy_flow, gas only or with condensate.
C1_EnthalpyConserved ==
  (Returned /\ op \in {"from_mixing_two_humid_air_flows", "from_mixing_air_water"})
    => Within(result.v.humid_air_flow.tot_enthalpy_flow
                + result.v.water_flow.tot_enthalpy_flow,
              InEnthalpyFlow)

\* C2: mass conservation of mixing.  Whenever
\* AirWaterFlow.from_mixing_two_humid_air_flows or
\* AirWaterFlow.from_mixing_air_water returns, the result's dry-air mass flow
\* equals the sum of the inputs' mass_flow_air and the result's water mass flow,
\* vapour plus condensate, equals the sum of the inputs' water mass flows, up to
\* the resolution of the humidity ratio.
C2_MassConserved ==
  (Returned /\ op \in {"from_mixing_two_humid_air_flows", "from_mixing_air_water"})
    => /\ Abs(result.v.humid_air_flow.mass_flow_air - InMassFlowAir) <= 2
       /\ Abs(result.v.humid_air_flow.mass_flow_water + result.v.water_flow.mass_flow
                - InMassFlowWater)
            <= InMassFlowAir \div HrUnit + 2

\* A mix of two humid air flows has returned saturated gas and condensate.
C2_Witness ==
  /\ Returned
  /\ op = "from_mixing_two_humid_air_flows"
  /\ ~result.v.dry
  /\ result.v.water_flow.mass_flow > 0

\* C3: order independence of mixing.  For every list of two or more humid air
\* flows at one pressure, mix_humid_air_flows has the same outcome on every
\* order of the list: all orders raise, or all return flows with the same
\* dry-bulb temperature, humidity ratio and volume flow.  Stated for the lists
\* whose flows all carry dry air and are above the triple point.
C3_OrderIndependent ==
  (/\ Done
   /\ op = "mix_humid_air_flows"
   /\ Len(hafs_in) >= 2
   /\ SamePressure /\ CarryDryAir /\ AboveTriplePoint)
    => \A q \in Orders(hafs_in) : SameOutcome(result, mix_humid_air_flows(q))

\* C4: the left fold equals the N-way aggregation.  For every list of three or
\* more flows at one pressure that carry dry air and are above the triple
\* point: when the single aggregation from_m_air_m_water_tot_enthalpy_flow of
\* the sums is gas only, mix_humid_air_flows returns a flow of the same
\* dry-bulb temperature and humidity ratio and does not raise; when the
\* aggregation has condensate, mix_humid_air_flows raises.
C4_FoldEqualsAggregation ==
  (/\ Done
   /\ op = "mix_humid_air_flows"
   /\ Len(hafs_in) >= 3
   /\ SamePressure /\ CarryDryAir /\ AboveTriplePoint)
    => \A awf \in {from_all_humid_air_flows(hafs_in)} :
         ~Raised(awf)
           => IF awf.v.dry
              THEN SameOutcome(result, Ok(awf.v.humid_air_flow))
              ELSE Raised(result)

C6_SubZeroMixReturns ==
  (Done /\ op = "from_mixing_two_humid_air_flows" /\ SamePressure /\ CarryDryAir)
    => \A mix \in {MixEquilibrium} :
         (mix.exists /\ mix.t_dry_bulb < 10)
           => /\ ~Raised(result)
              /\ result.v.dry <=> mix.hum_ratio <= mix.sat_hum_ratio

\* C7: the dry-only mix rejects exactly the condensing mixes.  Whenever two
\* flows of dry air at one pressure have an equilibrium, mix_two_humid_air_flows returns
\* if and only if the mixed humidity ratio does not exceed the saturation
\* humidity ratio at the equilibrium temperature, and the flow it returns
\* carries all the water that went in.
C7_DryOnlyRejectsExactlyCondensing ==
  (Done /\ op = "mix_two_humid_air_flows" /\ SamePressure /\ CarryDryAir)
    => \A mix \in {MixEquilibrium} :
         mix.exists
           => /\ ~Raised(result) <=> mix.hum_ratio <= mix.sat_hum_ratio
              /\ ~Raised(result)
                   => Abs(result.v.mass_flow_water - InMassFlowWater)
                        <= InMassFlowAir \div HrUnit + 2

\* C8: the error of the dry-only mix.  Whenever mix_two_humid_air_flows or
\* mix_humid_air_flows raises because the mixture of flows of dry air
\* condenses, the exception is a CondensationError that carries the excess
\* water mass flow.
C8_CondensationErrorExposesExcess ==
  (/\ Done
   /\ op \in {"mix_two_humid_air_flows", "mix_humid_air_flows"}
   /\ CarryDryAir
   /\ Raised(result)
   /\ result.at = "mix_two_humid_air_flows")
    => /\ result.exc = "CondensationError"
       /\ "excess_water_mass_flow" \in DOMAIN result

\* C9: a pressure mismatch is rejected first.  Whenever the flows handed to
\* mix_humid_air_flows or to AirWaterFlow.from_mixing_two_humid_air_flows,
\* all carrying dry air and above the triple point, do not all have the same
\* pressure, the call raises the ValueError of the pressure comparison, and no
\* temperature root finding has run before.
C9_PressureMismatchRejectedFirst ==
  (/\ Done
   /\ op \in {"mix_humid_air_flows", "from_mixing_two_humid_air_flows"}
   /\ CarryDryAir /\ AboveTriplePoint
   /\ ~SamePressure)
    => /\ Raised(result)
       /\ result.exc = "ValueError"
       /\ result.at = "from_mixing_two_humid_air_flows"
       /\ rootfinds = 0

\* C10: zero dry air fails fast as a validation error.  Whenever the summed
\* dry-air mass flow of the inputs is zero,
\* AirWaterFlow.from_mixing_two_humid_air_flows,
\* AirWaterFlow.from_mixing_air_water and add_water_to_air_stream raise
\* ValueError("no dry air present").
C10_ZeroDryAirIsValidationError ==
  (/\ Done
   /\ op \in {"from_mixing_two_humid_air_flows", "from_mixing_air_water",
              "add_water_to_air_stream"}
   /\ SamePressure
   /\ InMassFlowAir = 0)
    => /\ Raised(result)
       /\ result.exc = "ValueError"
       /\ result.msg = "no dry air present"

\* C11: single-input identity.  For every humid air flow f,
\* mix_humid_air_flows([f]) returns f itself, with its volume flow, state and
\* derived mass and enthalpy flows, and does not raise.
C11_SingleInputIdentity ==
  (Done /\ op = "mix_humid_air_flows" /\ Len(hafs_in) = 1)
    => ~Raised(result) /\ result.v = hafs_in[1]

\* mix_humid_air_flows has returned for a list of one flow below the triple
\* point, which no mix of two flows returns.
C11_Witness ==
  /\ Returned
  /\ op = "mix_humid_air_flows"
  /\ Len(hafs_in) = 1
  /\ hafs_in[1].humid_air_state.t_dry_bulb < 10

\* C13: flow reconstruction from the extensive quantities.  For every humid
\* air flow haf with a volume flow above zero and a state between -50 and
\* 80 degC, AirWaterFlow.from_m_air_m_water_tot_enthalpy_flow(
\* haf.mass_flow_air, haf.mass_flow_water, haf.tot_enthalpy_flow, pressure)
\* returns a gas-only result whose humid_air_flow is haf again (temperature,
\* humidity ratio, volume flow, mass flows), and the flow built with
\* volume_flow = m_air * moist_air_volume has mass_flow_air = m_air.
C13_FlowReconstruction ==
  (/\ Done
   /\ op = "from_m_air_m_water_tot_enthalpy_flow"
   /\ Len(hafs_in) = 1
   /\ hafs_in[1].volume_flow > 0
   /\ hafs_in[1].humid_air_state.t_dry_bulb \in -50000..80000)
    => /\ ~Raised(result)
       /\ result.v.dry
       /\ SameFlow(result.v.humid_air_flow, hafs_in[1])
       /\ Within(result.v.humid_air_flow.mass_flow_air, hafs_in[1].mass_flow_air)
       /\ Within(result.v.humid_air_flow.mass_flow_water, hafs_in[1].mass_flow_water)
       /\ Within(gas_phase(hafs_in[1].mass_flow_air,
                           Ok(hafs_in[1].humid_air_state)).v.mass_flow_air,
                 hafs_in[1].mass_flow_air)

\* The HumidAirState inside the value a call returned: the calls of
\* AirWaterFlow return an AirWaterFlow, the others a HumidAirFlow.
ReturnedState ==
  IF "humid_air_flow" \in DOMAIN result.v
  THEN result.v.humid_air_flow.humid_air_state
  ELSE result.v.humid_air_state

\* hum_ratio >= 0, 0 <= rel_hum <= 1 and vap_pres < pressure
ValidState(has) ==
  /\ has.hum_ratio >= 0
  /\ has.rel_hum >= 0
  /\ has.rel_hum <= HrUnit
  /\ has.vap_pres < has.pressure

\* C14: the state invariant.  Every HumidAirState of an input flow (built by
\* from_t_dry_bulb_rel_hum) and every state inside a flow returned by the
\* mixing operations or by add_water_to_air_stream has hum_ratio >= 0,
\* 0 <= rel_hum <= 1 and vap_pres < pressure: a supersaturated state is never
\* returned.
C14_StateInvariant ==
  /\ \A k \in 1..Len(hafs_in) : ValidState(hafs_in[k].humid_air_state)
  /\ Returned => ValidState(ReturnedState)

\* The derived fields of a HumidAirFlow agree with its volume flow and state.
DerivedOfHumidAirFlow(haf) ==
  /\ haf.mass_flow_air
       = MulDiv(haf.volume_flow, 10^5, haf.humid_air_state.moist_air_volume)
  /\ haf.mass_flow_water = MulDiv(haf.humid_air_state.hum_ratio, haf.mass_flow_air, HrUnit)
  /\ haf.mass_flow = haf.mass_flow_air + haf.mass_flow_water
  /\ haf.tot_enthalpy_flow
       = MulDiv(haf.humid_air_state.moist_air_enthalpy, haf.mass_flow_air, MassUnit)

\* The derived fields of a WaterFlow agree with its volume flow and state.
DerivedOfWaterFlow(wf) ==
  /\ wf.mass_flow = MulDiv(wf.volume_flow, wf.water_state.density, 10^7)
  /\ wf.tot_enthalpy_flow = MulDiv(wf.water_state.enthalpy, wf.mass_flow, MassUnit)

\* C18: the derived quantities of a flow.  Every HumidAirFlow, the input
\* flows and the flows the calls return, has mass_flow_air = volume_flow /
\* moist_air_volume, mass_flow_water = hum_ratio * mass_flow_air, mass_flow =
\* mass_flow_air + mass_flow_water and tot_enthalpy_flow = moist_air_enthalpy *
\* mass_flow_air; every WaterFlow, handed in or returned, has mass_flow =
\* volume_flow * density and tot_enthalpy_flow = enthalpy * mass_flow.
C18_DerivedQuantities ==
  /\ \A k \in 1..Len(hafs_in) : DerivedOfHumidAirFlow(hafs_in[k])
  /\ "water_state" \in DOMAIN wf_in => DerivedOfWaterFlow(wf_in)
  /\ Returned
       => IF "humid_air_flow" \in DOMAIN result.v
          THEN /\ DerivedOfHumidAirFlow(result.v.humid_air_flow)
               /\ DerivedOfWaterFlow(result.v.water_flow)
          ELSE DerivedOfHumidAirFlow(result.v)

\* Mixing a humid air flow with a water flow has returned saturated air and a
\* flow of liquid water.
C18_Witness ==
  /\ Returned
  /\ op = "from_mixing_air_water"
  /\ wf_in.mass_flow > 0
  /\ result.v.water_flow.mass_flow > 0
  /\ result.v.humid_air_flow.mass_flow_air > 0

\* C19: the mixed temperature lies between the inputs.  For two humid air
\* flows that carry dry air, at one pressure and with different dry-bulb
\* temperatures, the flow mix_two_humid_air_flows returns has a dry-bulb
\* temperature strictly above the lower and strictly below the higher of the
\* two.
C19_MixedTemperatureBetween ==
  (/\ Returned
   /\ op = "mix_two_humid_air_flows"
   /\ SamePressure /\ CarryDryAir
   /\ hafs_in[1].humid_air_state.t_dry_bulb # hafs_in[2].humid_air_state.t_dry_bulb)
    => /\ result.v.humid_air_state.t_dry_bulb
            > Min(hafs_in[1].humid_air_state.t_dry_bulb,
                  hafs_in[2].humid_air_state.t_dry_bulb)
       /\ result.v.humid_air_state.t_dry_bulb
            < Max(hafs_in[1].humid_air_state.t_dry_bulb,
                  hafs_in[2].humid_air_state.t_dry_bulb)

\* mix_two_humid_air_flows has returned the mix of the flow at 44 degC and the
\* flow at 10 degC.
C19_Witness ==
  /\ Returned
  /\ op = "mix_two_humid_air_flows"
  /\ hafs_in[1].humid_air_state.t_dry_bulb = 44000
  /\ hafs_in[2].humid_air_state.t_dry_bulb = 10000
  /\ result.v.humid_air_state.t_dry_bulb \in 10001..43999

\* get_sat_vap_pressure_liquid_water at 0, 1, ... 374 degC in 1e-2 Pa.  From
\* 366 degC on the value is above 20 MPa, more than every pressure of a call,
\* and is entered as 20 MPa.
SatVapPressureLiquidTable ==
  << 61121, 65708, 70597, 75805, 81351, 87253, 93530, 100203,
     107292, 114821, 122811, 131288, 140275, 149799, 159887, 170568,
     181870, 193824, 206461, 219815, 233919, 248810, 264522, 281096,
     298569, 316982, 336379, 356802, 378298, 400911, 424692, 449690,
     475956, 503543, 532508, 562906, 594796, 628238, 663295, 700031,
     738511, 778804, 820980, 865110, 911270, 959534, 1009981, 1062693,
     1117751, 1175240, 1235248, 1297864, 1363180, 1431291, 1502293, 1576284,
     1653368, 1733647, 1817228, 1904222, 1994738, 2088893, 2186802, 2288587,
     2394368, 2504273, 2618428, 2736965, 2860018, 2987723, 3120220, 3257651,
     3400162, 3547901, 3701020, 3859673, 4024018, 4194216, 4370430, 4552827,
     4741578, 4936856, 5138837, 5347701, 5563632, 5786815, 6017439, 6255699,
     6501790, 6755912, 7018268, 7289064, 7568510, 7856819, 8154209, 8460899,
     8777112, 9103076, 9439022, 9785184, 10141799, 10509109, 10887359, 11276796,
     11677673, 12090245, 12514772, 12951516, 13400744, 13862725, 14337734, 14826047,
     15327946, 15843715, 16373643, 16918021, 17477145, 18051314, 18640832, 19246004,
     19867142, 20504560, 21158575, 21829508, 22517685, 23223435, 23947090, 24688987,
     25449465, 26228868, 27027544, 27845844, 28684121, 29542736, 30422049, 31322427,
     32244239, 33187859, 34153663, 35142032, 36153350, 37188005, 38246389, 39328896,
     40435926, 41567881, 42725167, 43908194, 45117375, 46353128, 47615872, 48906033,
     50224038, 51570318, 52945308, 54349447, 55783177, 57246944, 58741197, 60266388,
     61822974, 63411414, 65032173, 66685716, 68372514, 70093042, 71847775, 73637195,
     75461786, 77322036, 79218436, 81151480, 83121666, 85129495, 87175473, 89260107,
     91383909, 93547394, 95751080, 97995489, 100281145, 102608576, 104978316, 107390897,
     109846860, 112346744, 114891095, 117480462, 120115395, 122796449, 125524182, 128299155,
     131121933, 133993083, 136913177, 139882788, 142902494, 145972874, 149094514, 152268000,
     155493922, 158772874, 162105451, 165492255, 168933887, 172430953, 175984064, 179593831,
     183260870, 186985800, 190769243, 194611823, 198514170, 202476914, 206500689, 210586135,
     214733891, 218944602, 223218915, 227557480, 231960951, 236429985, 240965241, 245567384,
     250237078, 254974994, 259781805, 264658186, 269604817, 274622381, 279711562, 284873050,
     290107537, 295415719, 300798295, 306255966, 311789439, 317399422, 323086628, 328851772,
     334695573, 340618755, 346622042, 352706164, 358871855, 365119850, 371450891, 377865720,
     384365086, 390949738, 397620432, 404377927, 411222983, 418156368, 425178852, 432291207,
     439494213, 446788649, 454175303, 461654964, 469228425, 476896486, 484659948, 492519618,
     500476308, 508530832, 516684010, 524936668, 533289634, 541743743, 550299832, 558958746,
     567721333, 576588446, 585560945, 594639692, 603825558, 613119418, 622522150, 632034642,
     641657784, 651392474, 661239615, 671200117, 681274896, 691464874, 701770979, 712194147,
     722735320, 733395447, 744175484, 755076394, 766099150, 777244729, 788514118, 799908311,
     811428312, 823075132, 834849790, 846753317, 858786749, 870951134, 883247530, 895677005,
     908240634, 920939507, 933774722, 946747388, 959858629, 973109576, 986501376, 1000035186,
     1013712178, 1027533536, 1041500459, 1055614160, 1069875865, 1084286818, 1098848278, 1113561520,
     1128427835, 1143448533, 1158624943, 1173958410, 1189450302, 1205102005, 1220914927, 1236890499,
     1253030173, 1269335427, 1285807762, 1302448706, 1319259815, 1336242671, 1353398889, 1370730113,
     1388238019, 1405924319, 1423790760, 1441839127, 1460071246, 1478488984, 1497094252, 1515889010,
     1534875268, 1554055087, 1573430587, 1593003947, 1612777413, 1632753298, 1652933992, 1673321966,
     1693919777, 1714730079, 1735755630, 1756999303, 1778464098, 1800153156, 1822069772, 1844217424,
     1866599786, 1889220767, 1912084541, 1935195599, 1958558808, 1982179489, 2000000000, 2000000000,
     2000000000, 2000000000, 2000000000, 2000000000, 2000000000, 2000000000, 2000000000 >>

\* get_sat_vap_pressure_water_ice at -224, -223, ... 1 degC, in 1e-2 Pa
SatVapPressureIceTable ==
  << 0, 0, 0, 0, 0, 0, 0, 0,
     0, 0, 0, 0, 0, 0, 0, 0,
     0, 0, 0, 0, 0, 0, 0, 0,
     0, 0, 0, 0, 0, 0, 0, 0,
     0, 0, 0, 0, 0, 0, 0, 0,
     0, 0, 0, 0, 0, 0, 0, 0,
     0, 0, 0, 0, 0, 0, 0, 0,
     0, 0, 0, 0, 0, 0, 0, 0,
     0, 0, 0, 0, 0, 0, 0, 0,
     0, 0, 0, 0, 0, 0, 0, 0,
     0, 0, 0, 0, 0, 0, 0, 0,
     0, 0, 0, 0, 0, 0, 0, 0,
     0, 0, 0, 0, 0, 0, 0, 0,
     0, 0, 0, 0, 0, 0, 0, 0,
     0, 0, 0, 0, 0, 0, 0, 0,
     0, 0, 0, 0, 0, 0, 0, 0,
     0, 0, 0, 1, 1, 1, 1, 1,
     1, 2, 2, 2, 3, 3, 4, 5,
     5, 6, 8, 9, 10, 12, 14, 17,
     19, 23, 26, 30, 35, 41, 47, 54,
     62, 72, 82, 94, 108, 124, 141, 161,
     184, 209, 238, 271, 307, 348, 394, 445,
     503, 568, 640, 720, 810, 910, 1022, 1146,
     1284, 1437, 1607, 1795, 2004, 2234, 2489, 2771,
     3081, 3423, 3801, 4215, 4672, 5173, 5724, 6327,
     6989, 7714, 8508, 9376, 10324, 11360, 12490, 13722,
     15065, 16527, 18119, 19849, 21729, 23771, 25987, 28391,
     30995, 33817, 36871, 40174, 43745, 47604, 51770, 56266,
     61115, 66342 >>

\* get_density_water_ice at -261, -260, ... 1 degC: the value the Chebyshev
\* polynomial returns (0.917 to 0.934, the density in g/cm3) in units of 1e-2
DensityIceTable ==
  << 93, 93, 93, 93, 93, 93, 93, 93,
     93, 93, 93, 93, 93, 93, 93, 93,
     93, 93, 93, 93, 93, 93, 93, 93,
     93, 93, 93, 93, 93, 93, 93, 93,
     93, 93, 93, 93, 93, 93, 93, 93,
     93, 93, 93, 93, 93, 93, 93, 93,
     93, 93, 93, 93, 93, 93, 93, 93,
     93, 93, 93, 93, 93, 93, 93, 93,
     93, 93, 93, 93, 93, 93, 93, 93,
     93, 93, 93, 93, 93, 93, 93, 93,
     93, 93, 93, 93, 93, 93, 93, 93,
     93, 93, 93, 93, 93, 93, 93, 93,
     93, 93, 93, 93, 93, 93, 93, 93,
     93, 93, 93, 93, 93, 93, 93, 93,
     93, 93, 93, 93, 93, 93, 93, 93,
     93, 93, 93, 93, 93, 93, 93, 93,
     93, 93, 93, 93, 93, 93, 93, 93,
     93, 93, 93, 93, 93, 93, 93, 93,
     93, 93, 93, 93, 93, 93, 93, 93,
     93, 93, 93, 93, 93, 93, 93, 93,
     93, 93, 93, 93, 93, 93, 93, 93,
     93, 93, 93, 93, 93, 93, 93, 93,
     93, 93, 93, 93, 93, 93, 93, 93,
     93, 93, 93, 93, 93, 93, 93, 93,
     93, 93, 93, 93, 93, 93, 93, 92,
     92, 92, 92, 92, 92, 92, 92, 92,
     92, 92, 92, 92, 92, 92, 92, 92,
     92, 92, 92, 92, 92, 92, 92, 92,
     92, 92, 92, 92, 92, 92, 92, 92,
     92, 92, 92, 92, 92, 92, 92, 92,
     92, 92, 92, 92, 92, 92, 92, 92,
     92, 92, 92, 92, 92, 92, 92, 92,
     92, 92, 92, 92, 92, 92, 92 >>

\* get_enthalpy_water_ice at -274, -273, ... 1 degC, in J/kg
EnthalpyIceTable ==
  << -631699, -631811, -631910, -631996, -632071, -632133, -632183, -632221,
     -632247, -632261, -632263, -632253, -632231, -632198, -632153, -632097,
     -632029, -631950, -631859, -631757, -631643, -631518, -631383, -631236,
     -631078, -630909, -630729, -630538, -630336, -630124, -629901, -629667,
     -629423, -629168, -628902, -628626, -628340, -628043, -627736, -627419,
     -627092, -626754, -626407, -626049, -625682, -625304, -624917, -624519,
     -624112, -623695, -623269, -622833, -622387, -621931, -621467, -620992,
     -620508, -620015, -619513, -619001, -618480, -617950, -617411, -616862,
     -616305, -615738, -615162, -614578, -613984, -613382, -612771, -612151,
     -611523, -610885, -610239, -609584, -608921, -608249, -607569, -606880,
     -606183, -605477, -604763, -604041, -603310, -602571, -601824, -601068,
     -600305, -599533, -598753, -597965, -597169, -596365, -595553, -594733,
     -593905, -593070, -592226, -591375, -590515, -589648, -588774, -587891,
     -587001, -586103, -585198, -584285, -583364, -582436, -581500, -580557,
     -579606, -578648, -577682, -576709, -575729, -574741, -573746, -572744,
     -571734, -570717, -569692, -568661, -567622, -566576, -565523, -564463,
     -563395, -562321, -561239, -560150, -559054, -557951, -556841, -555724,
     -554600, -553469, -552331, -551186, -550034, -548876, -547710, -546537,
     -545357, -544171, -542978, -541777, -540570, -539356, -538136, -536908,
     -535674, -534432, -533184, -531930, -530668, -529400, -528125, -526843,
     -525554, -524259, -522957, -521648, -520332, -519010, -517681, -516345,
     -515003, -513653, -512297, -510935, -509566, -508190, -506807, -505418,
     -504021, -502619, -501209, -499793, -498370, -496940, -495504, -494061,
     -492611, -491155, -489692, -488222, -486745, -485262, -483772, -482275,
     -480772, -479262, -477745, -476221, -474690, -473153, -471609, -470058,
     -468500, -466936, -465365, -463787, -462202, -460610, -459011, -457406,
     -455793, -454174, -452548, -450915, -449275, -447628, -445974, -444313,
     -442645, -440970, -439288, -437599, -435903, -434200, -432490, -430773,
     -429049, -427317, -425579, -423833, -422080, -420320, -418553, -416778,
     -414996, -413207, -411411, -409607, -407796, -405977, -404152, -402318,
     -400478, -398629, -396774, -394911, -393040, -391162, -389276, -387382,
     -385481, -383573, -381656, -379732, -377800, -375860, -373913, -371958,
     -369994, -368023, -366044, -364057, -362063, -360060, -358049, -356030,
     -354002, -351967, -349924, -347872, -345812, -343744, -341667, -339583,
     -337489, -335388, -333278, -331159 >>

\* ------------------------------------------------------------ waterstate.py

\* get_density_water_liquid is the correlation of psychroflow.get_density_water
get_density_water_liquid(t) ==
  IF 10 > t \/ 150000 < t
  THEN Raise("ValueError", "Temperature range: 0.01 < T < 150", "get_density_water_liquid")
  ELSE Ok(Interpolate(DensityWaterTable, 0, t))

get_density_water_ice(t) ==
  IF 10 < t \/ -260000 > t
  THEN Raise("ValueError", "Temperature range: -260 < T < 0.01", "get_density_water_ice")
  ELSE Ok(Interpolate(DensityIceTable, -261, t))

\* density of water/ice: liquid from 0.01 to 100 degC, ice below 0.01 degC
waterstate_get_density_water(t) ==
  IF 10 <= t /\ 100000 >= t THEN get_density_water_liquid(t)
  ELSE IF 10 > t THEN get_density_water_ice(t)
  ELSE Raise("ValueError", "t_dry_bulb > 100; Steam not implemented", "get_density_water")

\* get_enthalpy_water_liquid is the correlation of psychroflow.get_enthalpy_water
get_enthalpy_water_liquid(t) ==
  IF 10 > t \/ 150000 < t
  THEN Raise("ValueError", "Temperature range: 0.01 < T < 150", "get_enthalpy_water_liquid")
  ELSE Ok(Interpolate(EnthalpyWaterTable, 0, t))

get_enthalpy_water_ice(t) ==
  IF -273150 > t \/ 10 < t
  THEN Raise("ValueError", "Temperature range: -273.15 < T < 0.01", "get_enthalpy_water_ice")
  ELSE Ok(Interpolate(EnthalpyIceTable, -274, t))

\* enthalpy of water/ice: liquid from 0.01 to 150 degC, ice below 0.01 degC
waterstate_get_enthalpy_water(t) ==
  IF 10 <= t /\ 150000 >= t THEN get_enthalpy_water_liquid(t)
  ELSE IF 10 > t THEN get_enthalpy_water_ice(t)
  ELSE Raise("ValueError", "t_dry_bulb > 150", "get_enthalpy_water")

\* WaterState(temperature): __post_init__ sets density, then enthalpy
waterstate_WaterState(temperature) ==
  The({ IF Raised(density) THEN density
        ELSE The({ IF Raised(enthalpy) THEN enthalpy
                   ELSE Ok([temperature |-> temperature, density |-> density.v,
                            enthalpy |-> enthalpy.v])
                 : enthalpy \in {waterstate_get_enthalpy_water(temperature)} })
      : density \in {waterstate_get_density_water(temperature)} })

\* ------------------------------------------------------------ humidair.py

\* humidair.get_sat_vap_pressure: the correlation of liquid water at every
\* temperature it accepts (the function of psychroflow.py is a copy of it)
humidair_get_sat_vap_pressure(T) ==
  IF -50000 > T \/ 150000 < T
  THEN Raise("ValueError", "Invalid temperature range -50<=t<=150", "get_sat_vap_pressure")
  ELSE Ok(Interpolate(SatVapPressureTable, -50, T))

\* ------------------------------------------------------------ psychrostate.py

get_sat_vap_pressure_liquid_water(t_dry_bulb) ==
  Interpolate(SatVapPressureLiquidTable, 0, t_dry_bulb)

get_sat_vap_pressure_water_ice(t_dry_bulb) ==
  Interpolate(SatVapPressureIceTable, -224, t_dry_bulb)

\* saturation vapor pressure of water / ice
psychrostate_get_sat_vap_pressure(t_dry_bulb) ==
  IF -223150 > t_dry_bulb \/ 373900 < t_dry_bulb
  THEN Raise("ValueError", "Invalid temperature range -223.15<=t<=373.9",
             "get_sat_vap_pressure")
  ELSE IF 10 <= t_dry_bulb
  THEN Ok(get_sat_vap_pressure_liquid_water(t_dry_bulb))
  ELSE Ok(get_sat_vap_pressure_water_ice(t_dry_bulb))

\* float("inf"), and every humidity ratio above 622 kg/kg: next to the boiling
\* point the quotient of get_sat_hum_ratio leaves the range of the numbers.
Infinity == 2000000000

\* A float argument is its value on the grid and an excess of -1, 0 or 1: the
\* float lies below, on or above the grid value by a difference within
\* isclose's rel_tol = 1e-09, which no grid step is.

\* float < bound
FloatBelow(x, excess, bound) == x < bound \/ (x = bound /\ excess < 0)

\* float > bound
FloatAbove(x, excess, bound) == x > bound \/ (x = bound /\ excess > 0)

\* isclose(bound, float): abs_tol is 0, so next to 0 only 0 itself is close
FloatIsClose(x, excess, bound) ==
  x = bound /\ (bound # 0 \/ excess = 0)

\* get_vap_pres_from_rel_hum for the float rel_hum, excess; a rel_hum that is
\* close to 0 or 1 is reassigned 0 or 1
get_vap_pres_from_rel_hum_float(t_dry_bulb, rel_hum, excess) ==
  IF ~FloatIsClose(rel_hum, excess, 0) /\ ~FloatIsClose(rel_hum, excess, HrUnit)
       /\ (FloatBelow(rel_hum, excess, 0) \/ FloatAbove(rel_hum, excess, HrUnit))
  THEN Raise("ValueError", "Relative humidity is outside range [0, 1]",
             "get_vap_pres_from_rel_hum")
  ELSE The({ IF Raised(sat_vap_pressure) THEN sat_vap_pressure
             ELSE Ok(MulDiv(rel_hum, sat_vap_pressure.v, HrUnit))
           : sat_vap_pressure \in {psychrostate_get_sat_vap_pressure(t_dry_bulb)} })

\* get_vap_pres_from_rel_hum for a rel_hum of the grid
psychrostate_get_vap_pres_from_rel_hum(t_dry_bulb, rel_hum) ==
  get_vap_pres_from_rel_hum_float(t_dry_bulb, rel_hum, 0)

psychrostate_get_hum_ratio_from_vap_press(vap_pres, pressure) ==
  IF 0 > vap_pres
  THEN Raise("ValueError", "Partial pressure of water vapor in moist air cannot be negative",
             "get_hum_ratio_from_vap_press")
  ELSE IF pressure - vap_pres = 0
  THEN Raise("ZeroDivisionError", "float division by zero", "get_hum_ratio_from_vap_press")
  ELSE IF pressure - vap_pres < 0 /\ vap_pres > 0
  THEN Raise("ValueError", "Vapour pressure water > pressure", "get_hum_ratio_from_vap_press")
  ELSE Ok(MulDiv(621945, vap_pres, pressure - vap_pres))

\* get_hum_ratio_from_rel_hum for the float rel_hum, excess: the range check
\* comes before get_vap_pres_from_rel_hum and its isclose
get_hum_ratio_from_rel_hum_float(t_dry_bulb, rel_hum, excess, pressure) ==
  IF FloatBelow(rel_hum, excess, 0) \/ FloatAbove(rel_hum, excess, HrUnit)
  THEN Raise("ValueError", "Relative humidity is outside range [0, 1]",
             "get_hum_ratio_from_rel_hum")
  ELSE The({ IF Raised(vap_pres) THEN vap_pres
             ELSE psychrostate_get_hum_ratio_from_vap_press(vap_pres.v, pressure)
           : vap_pres \in {get_vap_pres_from_rel_hum_float(t_dry_bulb, rel_hum, excess)} })

\* get_hum_ratio_from_rel_hum for a rel_hum of the grid
psychrostate_get_hum_ratio_from_rel_hum(t_dry_bulb, rel_hum, pressure) ==
  get_hum_ratio_from_rel_hum_float(t_dry_bulb, rel_hum, 0, pressure)

\* humidity ratio of saturated air; float("inf") above the boiling point
psychrostate_get_sat_hum_ratio(t_dry_bulb, pressure) ==
  The({ IF Raised(sat_vap_pressure) THEN sat_vap_pressure
        ELSE IF sat_vap_pressure.v > pressure THEN Ok(Infinity)
        ELSE IF pressure - sat_vap_pressure.v = 0
        THEN Raise("ZeroDivisionError", "float division by zero", "get_sat_hum_ratio")
        ELSE IF pressure - sat_vap_pressure.v <= sat_vap_pressure.v \div 1000
        THEN Ok(Infinity)
        ELSE Ok(MulDiv(621945, sat_vap_pressure.v, pressure - sat_vap_pressure.v))
      : sat_vap_pressure \in {psychrostate_get_sat_vap_pressure(t_dry_bulb)} })

\* get_moist_air_enthalpy is the function of psychroflow.py, unchanged
psychrostate_get_sat_air_enthalpy(t_dry_bulb, pressure) ==
  The({ IF Raised(sat_hum_ratio) THEN sat_hum_ratio
        ELSE IF sat_hum_ratio.v = Infinity THEN Ok(Infinity)
        ELSE get_moist_air_enthalpy(t_dry_bulb, sat_hum_ratio.v)
      : sat_hum_ratio \in {psychrostate_get_sat_hum_ratio(t_dry_bulb, pressure)} })

psychrostate_get_rel_hum_from_vap_pressure(t_dry_bulb, vap_pres) ==
  IF vap_pres < 0
  THEN Raise("ValueError", "Partial pressure of water vapor in moist air cannot be negative",
             "get_rel_hum_from_vap_pressure")
  ELSE The({ IF Raised(sat_vap_pressure) THEN sat_vap_pressure
             ELSE IF sat_vap_pressure.v = 0
             THEN Raise("ZeroDivisionError", "float division by zero",
                        "get_rel_hum_from_vap_pressure")
             ELSE Ok(MulDiv(vap_pres, HrUnit, sat_vap_pressure.v))
           : sat_vap_pressure \in {psychrostate_get_sat_vap_pressure(t_dry_bulb)} })

\* specific enthalpy of an air water mixture at equilibrium, J / kg(Air + Water)
psychrostate_get_tot_enthalpy_air_water_mix(hum_ratio, t_dry_bulb, pressure) ==
  The({ IF Raised(sat_hum_ratio) THEN sat_hum_ratio
        ELSE IF hum_ratio <= sat_hum_ratio.v
        THEN \* unsaturated air
             The({ IF Raised(moist_air_enthalpy) THEN moist_air_enthalpy
                   ELSE Ok(MulDiv(moist_air_enthalpy.v, HrUnit, HrUnit + hum_ratio))
                 : moist_air_enthalpy \in {get_moist_air_enthalpy(t_dry_bulb, hum_ratio)} })
        ELSE The({ IF Raised(enthalpy_gas) THEN enthalpy_gas
                   ELSE The({ IF Raised(enthalpy_water) THEN enthalpy_water
                              ELSE Ok(MulDiv(enthalpy_gas.v
                                               + MulDiv(enthalpy_water.v,
                                                        hum_ratio - sat_hum_ratio.v, HrUnit),
                                             HrUnit, HrUnit + hum_ratio))
                            : enthalpy_water \in
                                { IF t_dry_bulb >= 10
                                  THEN \* saturated air over liquid water
                                       get_enthalpy_water_liquid(t_dry_bulb)
                                  ELSE \* saturated air over ice
                                       get_enthalpy_water_ice(t_dry_bulb) } })
                 : enthalpy_gas \in {psychrostate_get_sat_air_enthalpy(t_dry_bulb, pressure)} })
      : sat_hum_ratio \in {psychrostate_get_sat_hum_ratio(t_dry_bulb, pressure)} })

\* fun of get_t_wet_bulb:
\*   get_moist_air_enthalpy(t_dry_bulb, hum_ratio)
\*   + (get_sat_hum_ratio(t, pressure) - hum_ratio) * get_enthalpy_water(t)
\*   - get_sat_air_enthalpy(t, pressure)
\* Where the saturation humidity ratio is beyond the range of the numbers the
\* saturated enthalpy, 2500.9e3 J per kg of vapour, outweighs the other terms:
\* the value is below every other.
fun_of_get_t_wet_bulb(f, t) ==
  The({ IF Raised(moist_air_enthalpy) THEN moist_air_enthalpy
        ELSE IF Raised(sat_hum_ratio) THEN sat_hum_ratio
        ELSE IF Raised(enthalpy_water) THEN enthalpy_water
        ELSE IF Raised(sat_air_enthalpy) THEN sat_air_enthalpy
        ELSE IF sat_hum_ratio.v = Infinity THEN Ok(-Infinity)
        ELSE Ok(moist_air_enthalpy.v
                + MulDiv(sat_hum_ratio.v - f.hum_ratio, enthalpy_water.v, HrUnit)
                - sat_air_enthalpy.v)
      : moist_air_enthalpy \in {get_moist_air_enthalpy(f.t_dry_bulb, f.hum_ratio)},
        sat_hum_ratio \in {psychrostate_get_sat_hum_ratio(t, f.pressure)},
        enthalpy_water \in {waterstate_get_enthalpy_water(t)},
        sat_air_enthalpy \in {psychrostate_get_sat_air_enthalpy(t, f.pressure)} })

\* The functions handed to optimize.root_scalar, each with the values its
\* closure captures:
\*   fun of get_t_dew_point_from_vap_pressure: vap_pres - get_sat_vap_pressure(t)
\*   fun of get_t_dry_bulb_from_tot_enthalpy_air_water_mix:
\*     tot_enthalpy - get_tot_enthalpy_air_water_mix(hum_ratio, t, pressure)
\*   lambda of get_t_dry_bulb_from_sat_vap_pressure:
\*     get_sat_vap_pressure(t) - sat_vap_pressure
\*   fun of get_t_wet_bulb
psychrostate_fun(f, t) ==
  IF f.of = "get_t_wet_bulb" THEN fun_of_get_t_wet_bulb(f, t)
  ELSE The({ IF Raised(y) THEN y
             ELSE IF f.of = "get_t_dew_point_from_vap_pressure" THEN Ok(f.vap_pres - y.v)
             ELSE IF f.of = "get_t_dry_bulb_from_sat_vap_pressure"
             THEN Ok(y.v - f.sat_vap_pressure)
             ELSE Ok(f.tot_enthalpy - y.v)
           : y \in { IF f.of = "get_t_dry_bulb_from_tot_enthalpy_air_water_mix"
                     THEN psychrostate_get_tot_enthalpy_air_water_mix(f.hum_ratio, t,
                                                                      f.pressure)
                     ELSE psychrostate_get_sat_vap_pressure(t) } })

\* The bracketing iteration of brentq on the temperature grid: the bracket
\* shrinks, keeping a sign change of fun inside, until its ends are one grid
\* step apart; the end with the smaller residual is the root.
RECURSIVE brentq_iterate(_, _, _, _, _)
brentq_iterate(f, lo, flo, hi, fhi) ==
  IF hi - lo <= 1
  THEN Ok(IF Abs(fhi) < Abs(flo) THEN hi ELSE lo)
  ELSE LET mid == lo + (hi - lo) \div 2
       IN  The({ IF Raised(fmid) THEN fmid
                 ELSE IF fmid.v = 0 THEN Ok(mid)
                 ELSE IF Sign(fmid.v) = Sign(flo)
                 THEN brentq_iterate(f, mid, fmid.v, hi, fhi)
                 ELSE brentq_iterate(f, lo, flo, mid, fmid.v)
               : fmid \in {psychrostate_fun(f, mid)} })

\* optimize.root_scalar(fun, method="brentq", bracket=[lo, hi])
brentq(f, lo, hi) ==
  The({ IF Raised(flo) THEN flo
        ELSE The({ IF Raised(fhi) THEN fhi
                   ELSE IF flo.v = 0 THEN Ok(lo)
                   ELSE IF fhi.v = 0 THEN Ok(hi)
                   ELSE IF Sign(flo.v) = Sign(fhi.v)
                   THEN Raise("ValueError", "f(a) and f(b) must have different signs",
                              "root_scalar")
                   ELSE brentq_iterate(f, lo, flo.v, hi, fhi.v)
                 : fhi \in {psychrostate_fun(f, hi)} })
      : flo \in {psychrostate_fun(f, lo)} })

\* "if vapour pressure == 0, return -196"; bracket=[-223.1, 373.9]
psychrostate_get_t_dew_point_from_vap_pressure(vap_pres) ==
  IF vap_pres < 0
  THEN Raise("ValueError", "Partial pressure of water vapor in moist air cannot be negative",
             "get_t_dew_point_from_vap_pressure")
  ELSE IF isclose(0, vap_pres) THEN Ok(-196000)
  ELSE brentq([of |-> "get_t_dew_point_from_vap_pressure", vap_pres |-> vap_pres],
              -223100, 373900)

\* bracket=[-223.1, 373.9]
get_t_dry_bulb_from_tot_enthalpy_air_water_mix(hum_ratio, tot_enthalpy, pressure) ==
  brentq([of |-> "get_t_dry_bulb_from_tot_enthalpy_air_water_mix", hum_ratio |-> hum_ratio,
          tot_enthalpy |-> tot_enthalpy, pressure |-> pressure],
         -223100, 373900)

\* bracket=[-223.15, 373.9]
get_t_dry_bulb_from_sat_vap_pressure(sat_vap_pressure) ==
  brentq([of |-> "get_t_dry_bulb_from_sat_vap_pressure",
          sat_vap_pressure |-> sat_vap_pressure],
         -223150, 373900)

\* t_dry_bulb_lim_up = min(150, get_t_dry_bulb_from_sat_vap_pressure(pressure) - 1e-3);
\* bracket=[-223.15, t_dry_bulb_lim_up]
get_t_wet_bulb(t_dry_bulb, hum_ratio, pressure) ==
  The({ IF Raised(t_sat) THEN t_sat
        ELSE brentq([of |-> "get_t_wet_bulb", t_dry_bulb |-> t_dry_bulb,
                     hum_ratio |-> hum_ratio, pressure |-> pressure],
                    -223150, Min(150000, t_sat.v - 1))
      : t_sat \in {get_t_dry_bulb_from_sat_vap_pressure(pressure)} })

\* cls(pressure, hum_ratio, t_dry_bulb, t_wet_bulb, t_dew_point, rel_hum,
\*     vap_pres, moist_air_enthalpy, moist_air_volume)
psychrostate_HumidAirState(pressure, hum_ratio, t_dry_bulb, t_wet_bulb, t_dew_point, rel_hum, vap_pres, moist_air_enthalpy, moist_air_volume) ==
  [pressure |-> pressure, hum_ratio |-> hum_ratio, t_dry_bulb |-> t_dry_bulb,
   t_wet_bulb |-> t_wet_bulb, t_dew_point |-> t_dew_point, rel_hum |-> rel_hum,
   vap_pres |-> vap_pres, moist_air_enthalpy |-> moist_air_enthalpy,
   moist_air_volume |-> moist_air_volume]

\* The statements that end from_t_dry_bulb_rel_hum and from_t_dry_bulb_hum_ratio:
\* t_wet_bulb, t_dew_point, moist_air_enthalpy, moist_air_volume, return cls(...)
state_of_t_dry_bulb(pressure, hum_ratio, t_dry_bulb, rel_hum, vap_pres) ==
  The({ IF Raised(t_wet_bulb) THEN t_wet_bulb
        ELSE IF Raised(t_dew_point) THEN t_dew_point
        ELSE IF Raised(moist_air_enthalpy) THEN moist_air_enthalpy
        ELSE IF Raised(moist_air_volume) THEN moist_air_volume
        ELSE Ok(psychrostate_HumidAirState(pressure, hum_ratio, t_dry_bulb, t_wet_bulb.v,
                                           t_dew_point.v, rel_hum, vap_pres,
                                           moist_air_enthalpy.v, moist_air_volume.v))
      : t_wet_bulb \in {get_t_wet_bulb(t_dry_bulb, hum_ratio, pressure)},
        t_dew_point \in {psychrostate_get_t_dew_point_from_vap_pressure(vap_pres)},
        moist_air_enthalpy \in {get_moist_air_enthalpy(t_dry_bulb, hum_ratio)},
        moist_air_volume \in {get_moist_air_volume(t_dry_bulb, hum_ratio, pressure)} })

\* "if 0 > rel_hum > 1" is Python's chained comparison: 0 > rel_hum and rel_hum > 1.
\* The state is built with the rel_hum handed in, not a reassigned one.
from_t_dry_bulb_rel_hum_float(t_dry_bulb, rel_hum, excess, pressure) ==
  IF FloatBelow(rel_hum, excess, 0) /\ FloatAbove(rel_hum, excess, HrUnit)
  THEN Raise("ValueError", "Wet bulb temperature is above dry bulb temperature",
             "from_t_dry_bulb_rel_hum")
  ELSE
  The({ IF Raised(hum_ratio) THEN hum_ratio
        ELSE The({ IF Raised(vap_pres) THEN vap_pres
                   ELSE state_of_t_dry_bulb(pressure, hum_ratio.v, t_dry_bulb, rel_hum,
                                            vap_pres.v)
                 : vap_pres \in {get_vap_press_from_hum_ratio(hum_ratio.v, pressure)} })
      : hum_ratio \in
          {get_hum_ratio_from_rel_hum_float(t_dry_bulb, rel_hum, excess, pressure)} })

\* from_t_dry_bulb_rel_hum for a rel_hum of the grid
psychrostate_from_t_dry_bulb_rel_hum(t_dry_bulb, rel_hum, pressure) ==
  from_t_dry_bulb_rel_hum_float(t_dry_bulb, rel_hum, 0, pressure)

\* The rel_hum that from_t_dry_bulb_hum_ratio computes from a hum_ratio that
\* is rounded to HrUnit is off by up to this much: half a unit of hum_ratio is
\* pressure / (2 * 0.621945) units of vap_pres.  In the code the rounding of a
\* double is to isclose's rel_tol = 1e-09 what it is here to this bound.
rel_hum_rounding(sat_vap_pressure, pressure) ==
  MulDiv(pressure \div 621945 + 2, HrUnit, sat_vap_pressure) + 1

\* from_t_dry_bulb_hum_ratio that takes every negative hum_ratio for 0
from_t_dry_bulb_hum_ratio_clamping(t_dry_bulb, hum_ratio, pressure) ==
  The({ The({ IF Raised(vap_pres) THEN vap_pres
              ELSE The({ IF Raised(rel_hum) THEN rel_hum
                         ELSE state_of_t_dry_bulb(pressure, hum_ratio_, t_dry_bulb, rel_hum.v,
                                                  vap_pres.v)
                       : rel_hum \in
                           {psychrostate_get_rel_hum_from_vap_pressure(t_dry_bulb, vap_pres.v)} })
            : vap_pres \in {get_vap_press_from_hum_ratio(hum_ratio_, pressure)} })
      : hum_ratio_ \in {Max(0, hum_ratio)} })

\* hum_ratio_ and rel_hum_ are hum_ratio and rel_hum after the two "if"
\* statements have reassigned them
psychrostate_from_t_dry_bulb_hum_ratio(t_dry_bulb, hum_ratio, pressure) ==
  IF 0 > hum_ratio /\ ~isclose(hum_ratio, 0)
  THEN Raise("ValueError", "Humidity ratio cannot be negative", "from_t_dry_bulb_hum_ratio")
  ELSE
  The({ The({ IF Raised(vap_pres) THEN vap_pres
              ELSE
              The({ IF Raised(rel_hum) THEN rel_hum
                    ELSE IF HrUnit < rel_hum.v
                            /\ rel_hum.v - HrUnit
                                 > rel_hum_rounding(
                                     psychrostate_get_sat_vap_pressure(t_dry_bulb).v, pressure)
                    THEN Raise("ValueError", "relative Humidity > 1; Condensation!",
                               "from_t_dry_bulb_hum_ratio")
                    ELSE state_of_t_dry_bulb(pressure, hum_ratio_, t_dry_bulb,
                                             Min(HrUnit, rel_hum.v), vap_pres.v)
                  : rel_hum \in
                      {psychrostate_get_rel_hum_from_vap_pressure(t_dry_bulb, vap_pres.v)} })
            : vap_pres \in {get_vap_press_from_hum_ratio(hum_ratio_, pressure)} })
      : hum_ratio_ \in {IF 0 > hum_ratio THEN 0 ELSE hum_ratio} })

\* from_hum_ratio_enthalpy that hands moist_air_enthalpy, which is per kg of
\* dry air, to the root finding as the enthalpy per kg of air and water
from_hum_ratio_enthalpy_per_dry_air(hum_ratio, moist_air_enthalpy, pressure) ==
  The({ IF Raised(vap_pres) THEN vap_pres
        ELSE
        The({ IF Raised(t_dry_bulb) THEN t_dry_bulb
              ELSE
              The({ IF Raised(t_wet_bulb) THEN t_wet_bulb
                    ELSE IF Raised(t_dew_point) THEN t_dew_point
                    ELSE IF Raised(rel_hum) THEN rel_hum
                    ELSE IF Raised(moist_air_volume) THEN moist_air_volume
                    ELSE Ok(psychrostate_HumidAirState(
                              pressure, hum_ratio, t_dry_bulb.v, t_wet_bulb.v, t_dew_point.v,
                              rel_hum.v, vap_pres.v, moist_air_enthalpy, moist_air_volume.v))
                  : t_wet_bulb \in {get_t_wet_bulb(t_dry_bulb.v, hum_ratio, pressure)},
                    t_dew_point \in {psychrostate_get_t_dew_point_from_vap_pressure(vap_pres.v)},
                    rel_hum \in
                      {psychrostate_get_rel_hum_from_vap_pressure(t_dry_bulb.v, vap_pres.v)},
                    moist_air_volume \in
                      {get_moist_air_volume(t_dry_bulb.v, hum_ratio, pressure)} })
            : t_dry_bulb \in
                {get_t_dry_bulb_from_tot_enthalpy_air_water_mix(
                   hum_ratio, moist_air_enthalpy, pressure)} })
      : vap_pres \in {get_vap_press_from_hum_ratio(hum_ratio, pressure)} })

\* tot_enthalpy = moist_air_enthalpy / (1 + hum_ratio) divides by zero at
\* hum_ratio = -1, which get_vap_press_from_hum_ratio has rejected before.
psychrostate_from_hum_ratio_enthalpy(hum_ratio, moist_air_enthalpy, pressure) ==
  The({ IF Raised(vap_pres) THEN vap_pres
        ELSE
        The({ IF Raised(t_dry_bulb) THEN t_dry_bulb
              ELSE
              The({ IF Raised(t_wet_bulb) THEN t_wet_bulb
                    ELSE IF Raised(t_dew_point) THEN t_dew_point
                    ELSE IF Raised(rel_hum) THEN rel_hum
                    ELSE IF Raised(moist_air_volume) THEN moist_air_volume
                    ELSE Ok(psychrostate_HumidAirState(
                              pressure, hum_ratio, t_dry_bulb.v, t_wet_bulb.v, t_dew_point.v,
                              rel_hum.v, vap_pres.v, moist_air_enthalpy, moist_air_volume.v))
                  : t_wet_bulb \in {get_t_wet_bulb(t_dry_bulb.v, hum_ratio, pressure)},
                    t_dew_point \in {psychrostate_get_t_dew_point_from_vap_pressure(vap_pres.v)},
                    rel_hum \in
                      {psychrostate_get_rel_hum_from_vap_pressure(t_dry_bulb.v, vap_pres.v)},
                    moist_air_volume \in
                      {get_moist_air_volume(t_dry_bulb.v, hum_ratio, pressure)} })
            : t_dry_bulb \in
                {get_t_dry_bulb_from_tot_enthalpy_air_water_mix(
                   hum_ratio, MulDiv(moist_air_enthalpy, HrUnit, HrUnit + hum_ratio),
                   pressure)} })
      : vap_pres \in {get_vap_press_from_hum_ratio(hum_ratio, pressure)} })

\* ------------------------------------------------------------ library calls

\* Temperatures handed to the correlations, in 1e-3 degC: every 5 degC from
\* -280 to 380 degC and both sides of every limit the code tests.
Temperatures ==
  { 5000 * k : k \in -56..76 }
    \cup { -273151, -273150, -260001, -260000, -223151, -223150, -50001, -50000,
           9, 10, 11, 100000, 100001, 150000, 150001, 373900, 373901 }

\* No call has been made and the caller holds nothing.
LibInit ==
  /\ hafs_in = << >>
  /\ wf_in = NoWaterFlow
  /\ op = ""
  /\ pc = "start"
  /\ i = 0
  /\ haf_out = NoFlow
  /\ result = Ok(0)
  /\ rootfinds = 0
  /\ args = << >>
  /\ held = NoState
  /\ alias = 0

\* The call name(a) has ended with r.
Return(name, a, r) ==
  /\ op' = name
  /\ args' = a
  /\ result' = r
  /\ pc' = "done"
  /\ UNCHANGED <<hafs_in, wf_in, i, haf_out, rootfinds, alias>>

\* psychrostate.get_sat_vap_pressure(t)
CallSatVapPressure ==
  /\ pc = "start"
  /\ \E t \in Temperatures :
       Return("psychrostate.get_sat_vap_pressure", <<t>>, psychrostate_get_sat_vap_pressure(t))
  /\ UNCHANGED held

\* humidair.get_sat_vap_pressure(T)
CallHumidairSatVapPressure ==
  /\ pc = "start"
  /\ \E T \in Temperatures :
       Return("humidair.get_sat_vap_pressure", <<T>>, humidair_get_sat_vap_pressure(T))
  /\ UNCHANGED held

\* waterstate.WaterState(temperature)
CallWaterState ==
  /\ pc = "start"
  /\ \E temperature \in Temperatures :
       Return("waterstate.WaterState", <<temperature>>, waterstate_WaterState(temperature))
  /\ UNCHANGED held

\* Vapour pressures handed to get_t_dew_point_from_vap_pressure, in 1e-2 Pa:
\* negative ones, none, and the saturation pressures from -90 degC on.
VapPressures ==
  {-100, -1, 0}
    \cup { psychrostate_get_sat_vap_pressure(t).v
           : t \in { x \in Temperatures : -90000 <= x /\ x <= 373900 } }

\* psychrostate.get_t_dew_point_from_vap_pressure(vap_pres)
CallDewPoint ==
  /\ pc = "start"
  /\ \E vap_pres \in VapPressures :
       Return("psychrostate.get_t_dew_point_from_vap_pressure", <<vap_pres>>,
              psychrostate_get_t_dew_point_from_vap_pressure(vap_pres))
  /\ UNCHANGED held

\* The arguments of the constructors of HumidAirState: the ends and the middle
\* of the ranges test_has_init_methods runs through, and relative humidities
\* and humidity ratios that are no physical values.
StateTemperatures == {-30000, -10000, 0, 5000, 20000, 44000, 80000}

RelHums == {-500000, -1, 0, 300000, 500000, 1000000, 1000001, 1500000}

HumRatios == {-1000, -1, 0, 7263}

Pressures == {5000000, STANDARD_PRESSURE, 150000000}

\* has = HumidAirState.from_t_dry_bulb_rel_hum(t, rh, p); the caller holds has.
\* Next to 0 and 1 rh is also a float a rounding error below or above.
CallFromRelHum ==
  /\ pc = "start"
  /\ \E t \in StateTemperatures, rh \in RelHums, p \in Pressures :
       \E excess \in IF rh \in {0, HrUnit} THEN {-1, 0, 1} ELSE {0} :
         \E r \in {from_t_dry_bulb_rel_hum_float(t, rh, excess, p)} :
           /\ Return("HumidAirState.from_t_dry_bulb_rel_hum", <<t, rh, p, excess>>, r)
           /\ held' = IF Raised(r) THEN NoState ELSE r.v

\* HumidAirState.from_t_dry_bulb_hum_ratio(t, hr, p)
CallFromHumRatio ==
  /\ pc = "start"
  /\ \E t \in StateTemperatures, hr \in HumRatios, p \in Pressures :
       Return("HumidAirState.from_t_dry_bulb_hum_ratio", <<t, hr, p>>,
              psychrostate_from_t_dry_bulb_hum_ratio(t, hr, p))
  /\ UNCHANGED held

\* HumidAirState.from_hum_ratio_enthalpy(hr, h, p)
CallFromHumRatioEnthalpy ==
  /\ pc = "start"
  /\ \E hr \in HumRatios, h \in {20082, 38517}, p \in Pressures :
       Return("HumidAirState.from_hum_ratio_enthalpy", <<hr, h, p>>,
              psychrostate_from_hum_ratio_enthalpy(hr, h, p))
  /\ UNCHANGED held

\* HumidAirState.from_t_dry_bulb_hum_ratio(t, has.hum_ratio, p) with the t and
\* the p that has was made of
RebuildFromHumRatio ==
  /\ pc = "done"
  /\ op = "HumidAirState.from_t_dry_bulb_rel_hum"
  /\ held # NoState
  /\ Return("HumidAirState.from_t_dry_bulb_hum_ratio",
            <<args[1], held.hum_ratio, args[3]>>,
            psychrostate_from_t_dry_bulb_hum_ratio(args[1], held.hum_ratio, args[3]))
  /\ UNCHANGED held

\* HumidAirState.from_hum_ratio_enthalpy(has.hum_ratio, has.moist_air_enthalpy, p)
RebuildFromHumRatioEnthalpy ==
  /\ pc = "done"
  /\ op = "HumidAirState.from_t_dry_bulb_rel_hum"
  /\ held # NoState
  /\ Return("HumidAirState.from_hum_ratio_enthalpy",
            <<held.hum_ratio, held.moist_air_enthalpy, args[3]>>,
            psychrostate_from_hum_ratio_enthalpy(held.hum_ratio, held.moist_air_enthalpy,
                                                 args[3]))
  /\ UNCHANGED held

\* Temperatures handed to get_sat_hum_ratio: below, at and above the boiling
\* point at STANDARD_PRESSURE.
SatTemperatures == {20000, 99000, 100000, 110000, 120000}

\* psychrostate.get_sat_hum_ratio(t, p), p also the saturation pressure at t
CallSatHumRatio ==
  /\ pc = "start"
  /\ \E t \in SatTemperatures :
       \E p \in Pressures \cup {psychrostate_get_sat_vap_pressure(t).v} :
         Return("psychrostate.get_sat_hum_ratio", <<t, p>>,
                psychrostate_get_sat_hum_ratio(t, p))
  /\ UNCHANGED held

\* psychroflow.get_sat_hum_ratio(t, p), p also the saturation pressure at t
CallPsychroflowSatHumRatio ==
  /\ pc = "start"
  /\ \E t \in SatTemperatures :
       \E p \in Pressures \cup {get_sat_vap_pressure(t).v} :
         Return("psychroflow.get_sat_hum_ratio", <<t, p>>, get_sat_hum_ratio(t, p))
  /\ UNCHANGED held

\* Humidity ratios handed to get_tot_enthalpy_air_water_mix: dry air, 7 g/kg,
\* 50 g/kg and 500 g/kg.
MixHumRatios == {0, 7263, 50000, 500000}

\* Temperatures of the bracket [-223.1, 373.9] of
\* psychrostate.get_t_dry_bulb_from_tot_enthalpy_air_water_mix.
BracketTemperatures ==
  {-223100, -50000, -10000, 0, 5, 10, 20000, 60000, 97000, 99000, 160000, 373900}

\* Temperatures of the bracket [-50, 99] of
\* psychroflow.get_temp_from_tot_enthalpy_air_water_mix.
PsychroflowBracketTemperatures ==
  {-50000, -10000, 0, 5, 10, 20000, 60000, 97000, 99000}

\* Total pressures of an air water mix: 900 hPa, STANDARD_PRESSURE and 15 bar.
MixPressures == {9000000, STANDARD_PRESSURE, 150000000}

\* psychrostate.get_tot_enthalpy_air_water_mix(hr, t, p)
CallTotEnthalpy ==
  /\ pc = "start"
  /\ \E hr \in MixHumRatios, t \in BracketTemperatures, p \in MixPressures :
       Return("psychrostate.get_tot_enthalpy_air_water_mix", <<hr, t, p>>,
              psychrostate_get_tot_enthalpy_air_water_mix(hr, t, p))
  /\ UNCHANGED held

\* psychroflow.get_tot_enthalpy_air_water_mix(hr, t, p)
CallPsychroflowTotEnthalpy ==
  /\ pc = "start"
  /\ \E hr \in MixHumRatios, t \in PsychroflowBracketTemperatures, p \in MixPressures :
       Return("psychroflow.get_tot_enthalpy_air_water_mix", <<hr, t, p>>,
              get_tot_enthalpy_air_water_mix(hr, t, p))
  /\ UNCHANGED held

\* The root-finding call sites of psychrostate and psychroflow with the
\* exception each raises for a result that has not converged.
SolverSites ==
  { [name |-> "psychrostate.get_t_dew_point_from_vap_pressure",
     exc |-> "ValueError", msg |-> "Root not converged: "],
    [name |-> "psychrostate.get_t_dry_bulb_from_tot_enthalpy_air_water_mix",
     exc |-> "ArithmeticError", msg |-> "Root not found: "],
    [name |-> "psychrostate.get_t_dry_bulb_from_sat_vap_pressure",
     exc |-> "ArithmeticError", msg |-> "Root not found: "],
    [name |-> "psychrostate.get_t_wet_bulb",
     exc |-> "ArithmeticError", msg |-> "Root not found: "],
    [name |-> "psychroflow.get_t_dew_point_from_vap_pressure",
     exc |-> "ValueError", msg |-> "Root not converged: "],
    [name |-> "psychroflow.get_temp_from_tot_enthalpy_air_water_mix",
     exc |-> "ArithmeticError", msg |-> "Root not found: "] }

\* The RootResults that optimize.root_scalar hands back: converged with the
\* root, or, the iterations used up, not converged with the last iterate.
RootResults ==
  [converged : {TRUE}, flag : {"converged"}, root : {-50000, 9268, 20000}]
    \cup [converged : {FALSE}, flag : {"convergence error"}, root : {-50000, 9268, 20000}]

\* The statements after sol = optimize.root_scalar(...):
\*   if sol.converged: return sol.root
\*   raise ValueError("Root not converged: " + sol.flag)
after_root_scalar(site, sol) ==
  IF sol.converged THEN Ok(sol.root)
  ELSE Raise(site.exc, site.msg \o sol.flag, site.name)

\* A root-finding function goes on after optimize.root_scalar has handed back sol.
ReturnAfterRootScalar ==
  /\ pc = "start"
  /\ \E site \in SolverSites, sol \in RootResults :
       Return("after_root_scalar", <<sol, site>>, after_root_scalar(site, sol))
  /\ UNCHANGED held

LibNext ==
  \/ CallSatVapPressure
  \/ CallHumidairSatVapPressure
  \/ CallWaterState
  \/ CallDewPoint
  \/ CallFromRelHum
  \/ CallFromHumRatio
  \/ CallFromHumRatioEnthalpy
  \/ RebuildFromHumRatio
  \/ RebuildFromHumRatioEnthalpy
  \/ CallSatHumRatio
  \/ CallPsychroflowSatHumRatio
  \/ CallTotEnthalpy
  \/ CallPsychroflowTotEnthalpy
  \/ ReturnAfterRootScalar

LibSpec == LibInit /\ [][LibNext]_vars

\* ------------------------------------------------------------ properties of the library

\* C15: get_sat_vap_pressure, of psychrostate and of humidair, returns a
\* value for every temperature from -223.15 to 373.9 degC and raises for every
\* temperature outside; the value is that of the liquid correlation from
\* 0.01 degC on and that of the ice correlation below.
C15_SatVapPressureDomain ==
  (Done /\ op \in {"psychrostate.get_sat_vap_pressure", "humidair.get_sat_vap_pressure"})
    => /\ Raised(result) <=> (args[1] < -223150 \/ args[1] > 373900)
       /\ ~Raised(result)
            => result.v = IF args[1] >= 10
                          THEN get_sat_vap_pressure_liquid_water(args[1])
                          ELSE get_sat_vap_pressure_water_ice(args[1])

\* C17: waterstate.WaterState(T) is constructed with the density and the
\* enthalpy of the liquid correlations for every T from 0.01 to 150 degC and
\* with those of the ice correlations for every T below 0.01 degC down to
\* -260 degC, the floor of the ice density; it raises ValueError, and only
\* for a T outside these ranges.
C17_WaterStateDomain ==
  (Done /\ op = "waterstate.WaterState")
    => LET T == args[1]
       IN  /\ (10 <= T /\ T <= 150000)
                => /\ ~Raised(result)
                   /\ result.v.density = Interpolate(DensityWaterTable, 0, T)
                   /\ result.v.enthalpy = Interpolate(EnthalpyWaterTable, 0, T)
           /\ (-260000 <= T /\ T < 10)
                => /\ ~Raised(result)
                   /\ result.v.density = Interpolate(DensityIceTable, -261, T)
                   /\ result.v.enthalpy = Interpolate(EnthalpyIceTable, -274, T)
           /\ Raised(result)
                => /\ result.exc = "ValueError"
                   /\ (T < -260000 \/ T > 150000)

\* Temperature T is a root of vap_pres = get_sat_vap_pressure(T) on the grid:
\* the saturation pressures one step below and above T enclose vap_pres.  The
\* correlations are p * exp(...): they return no 0 (1.9e-40 Pa at -223.15
\* degC, an entry 0 of a table is a pressure below 0.005 Pa), so vap_pres = 0
\* has no root.
IsRootOfSatVapPressure(T, vap_pres) ==
  /\ vap_pres > 0
  /\ psychrostate_get_sat_vap_pressure(Max(T - 1, -223150)).v <= vap_pres
  /\ vap_pres <= psychrostate_get_sat_vap_pressure(Min(T + 1, 373900)).v

\* C20: get_t_dew_point_from_vap_pressure(v) raises ValueError for v < 0;
\* for every v >= 0 it raises or returns a temperature T with
\* get_sat_vap_pressure(T) = v, never a temperature that is no root.
C20_DewPointIsRoot ==
  (Done /\ op = "psychrostate.get_t_dew_point_from_vap_pressure")
    => /\ args[1] < 0 => (Raised(result) /\ result.exc = "ValueError")
       /\ (args[1] >= 0 /\ ~Raised(result)) => IsRootOfSatVapPressure(result.v, args[1])

\* C16: from_t_dry_bulb_rel_hum raises ValueError for every rel_hum below 0
\* or above 1, from_t_dry_bulb_hum_ratio and from_hum_ratio_enthalpy raise
\* ValueError for every negative hum_ratio; no state is returned.
C16_ConstructorsValidate ==
  Done
    => /\ (op = "HumidAirState.from_t_dry_bulb_rel_hum" /\ (args[2] < 0 \/ args[2] > HrUnit))
            => (Raised(result) /\ result.exc = "ValueError" /\ held = NoState)
       /\ (op = "HumidAirState.from_t_dry_bulb_hum_ratio" /\ args[2] < 0)
            => (Raised(result) /\ result.exc = "ValueError")
       /\ (op = "HumidAirState.from_hum_ratio_enthalpy" /\ args[1] < 0)
            => (Raised(result) /\ result.exc = "ValueError")

\* from_t_dry_bulb_hum_ratio has rejected a hum_ratio of -0.001 at 20 degC.
C16_Witness ==
  /\ Done
  /\ op = "HumidAirState.from_t_dry_bulb_hum_ratio"
  /\ args[1] = 20000
  /\ args[2] = -1000
  /\ Raised(result)
  /\ result.exc = "ValueError"

\* State a reproduces state b: the fields that no rounding touches are equal,
\* the temperatures found by root finding are within one grid step, rel_hum is
\* within the rounding of a rel_hum recomputed from hum_ratio, the volume
\* within 1e-3.
SameState(a, b) ==
  /\ a.pressure = b.pressure
  /\ a.hum_ratio = b.hum_ratio
  /\ a.vap_pres = b.vap_pres
  /\ a.t_dew_point = b.t_dew_point
  /\ a.moist_air_enthalpy = b.moist_air_enthalpy
  /\ Abs(a.t_dry_bulb - b.t_dry_bulb) <= 1
  /\ Abs(a.t_wet_bulb - b.t_wet_bulb) <= 1
  /\ Abs(a.rel_hum - b.rel_hum)
       <= rel_hum_rounding(psychrostate_get_sat_vap_pressure(b.t_dry_bulb).v, b.pressure)
  /\ Within(a.moist_air_volume, b.moist_air_volume)

C27_AirWaterMixValidatesPressure ==
  (Done /\ op = "from_mixing_air_water"
        /\ ~isclose(wf_in.water_state.pressure, hafs_in[1].humid_air_state.pressure))
    => (Raised(result) /\ result.exc = "ValueError")

\* C28: derived flows keep the input pressure.  Whenever
\* add_water_to_air_stream(haf, wf) has returned a flow, the pressure of its
\* state is the pressure of haf.humid_air_state, also when that is not
\* STANDARD_PRESSURE.
C28_DerivedFlowKeepsPressure ==
  (Returned /\ op = "add_water_to_air_stream")
    => result.v.humid_air_state.pressure = hafs_in[1].humid_air_state.pressure

\* ------------------------------------------------------------ C29

\* The checks of AirWaterFlow.__post_init__ as conditions on the two flows.
Constructible(haf, wf) ==
  /\ isclose(haf.humid_air_state.t_dry_bulb, wf.water_state.temperature)
  /\ isclose(haf.humid_air_state.pressure, wf.water_state.pressure)
  /\ ~isclose(wf.mass_flow, 0) => isclose(haf.humid_air_state.rel_hum, HrUnit)

\* The operations that end with an AirWaterFlow.
AirWaterFlowOps ==
  {"AirWaterFlow", "from_water_flow", "from_mixing_two_humid_air_flows",
   "from_mixing_air_water", "from_m_air_m_water_tot_enthalpy_flow"}

\* C29: AirWaterFlow consistency.  Every AirWaterFlow that a construction or a
\* factory has returned has air and water temperatures close to each other, air
\* and water pressures close to each other, dry = TRUE exactly when its liquid
\* water mass flow is zero, and rel_hum close to 1 when it is not dry; and
\* whenever AirWaterFlow(haf, wf) is constructed from flows that break one of
\* these, the construction has raised ValueError and returned no object.
C29_AirWaterFlowConsistent ==
  (Done /\ op \in AirWaterFlowOps)
    => /\ ~Raised(result)
          => /\ Constructible(result.v.humid_air_flow, result.v.water_flow)
             /\ result.v.dry <=> isclose(result.v.water_flow.mass_flow, 0)
       /\ (op = "AirWaterFlow" /\ ~Constructible(hafs_in[1], wf_in))
          => (Raised(result) /\ result.exc = "ValueError")

\* AirWaterFlow has been constructed from a saturated air flow and liquid water
\* at its temperature and pressure, and is not dry.
C29_Witness ==
  /\ Returned
  /\ op = "AirWaterFlow"
  /\ ~result.v.dry
  /\ wf_in.mass_flow > 0
  /\ result.v.humid_air_flow.humid_air_state.rel_hum = HrUnit

\* ------------------------------------------------------------ C26, C22

\* What get_sat_hum_ratio has done: the exception it raised, "inf" for the
\* infinite sentinel, "negative" or "finite" for any other value.
SaturationPolicy(r) ==
  IF Raised(r) THEN r.exc
  ELSE IF r.v = Infinity THEN "inf"
  ELSE IF r.v < 0 THEN "negative"
  ELSE "finite"

\* C26: one saturation policy.  Whenever get_sat_hum_ratio(T, p) of psychrostate
\* or of psychroflow has ended for a T and a p with get_sat_vap_pressure(T) >= p
\* (in both modules), it has raised ValueError or returned the infinite
\* sentinel, never a negative or finite value and never an arithmetic
\* exception, and the get_sat_hum_ratio of the other module does the same for
\* the same T and p.
C26_OneSaturationPolicy ==
  (Done /\ op \in {"psychrostate.get_sat_hum_ratio", "psychroflow.get_sat_hum_ratio"})
    => \A t \in {args[1]}, p \in {args[2]} :
         (psychrostate_get_sat_vap_pressure(t).v >= p /\ get_sat_vap_pressure(t).v >= p)
           => /\ SaturationPolicy(result) \in {"ValueError", "inf"}
              /\ SaturationPolicy(psychrostate_get_sat_hum_ratio(t, p))
                   = SaturationPolicy(get_sat_hum_ratio(t, p))

\* (enthalpy of the gas phase per kg of dry air + (hr - hr_sat) * h_cond) / (1 + hr)
SaturatedMixEnthalpy(hum_ratio, sat_hum_ratio, sat_air_enthalpy, h_cond) ==
  MulDiv(sat_air_enthalpy + MulDiv(hum_ratio - sat_hum_ratio, h_cond, HrUnit),
         HrUnit, HrUnit + hum_ratio)

\* C22: the equilibrium enthalpy formula.  Whenever
\* get_tot_enthalpy_air_water_mix(hr, T, p) of psychrostate or of psychroflow
\* has ended for a T of the bracket of the module's temperature solver, it has
\* returned a value, and the value is get_moist_air_enthalpy(T, hr) / (1 + hr)
\* if hr <= get_sat_hum_ratio(T, p) and otherwise
\* (get_sat_air_enthalpy(T, p) + (hr - hr_sat) * h_cond(T)) / (1 + hr), h_cond
\* the enthalpy of liquid water for T >= 0.01 degC and of ice below.
C22_EquilibriumEnthalpyFormula ==
  /\ (Done /\ op = "psychrostate.get_tot_enthalpy_air_water_mix")
       => \A hr \in {args[1]}, t \in {args[2]}, p \in {args[3]} :
            /\ ~Raised(result)
            /\ \A s \in {psychrostate_get_sat_hum_ratio(t, p).v} :
                 Abs(result.v
                       - (IF hr <= s
                          THEN MulDiv(get_moist_air_enthalpy(t, hr).v, HrUnit, HrUnit + hr)
                          ELSE SaturatedMixEnthalpy(
                                 hr, s, psychrostate_get_sat_air_enthalpy(t, p).v,
                                 IF t >= 10 THEN get_enthalpy_water_liquid(t).v
                                 ELSE get_enthalpy_water_ice(t).v))) <= 1
  /\ (Done /\ op = "psychroflow.get_tot_enthalpy_air_water_mix")
       => \A hr \in {args[1]}, t \in {args[2]}, p \in {args[3]} :
            /\ ~Raised(result)
            /\ \A s \in {get_sat_hum_ratio(t, p).v} :
                 Abs(result.v
                       - (IF hr <= s
                          THEN MulDiv(get_moist_air_enthalpy(t, hr).v, HrUnit, HrUnit + hr)
                          ELSE SaturatedMixEnthalpy(
                                 hr, s, get_sat_air_enthalpy(t, p).v,
                                 IF t >= 10 THEN get_enthalpy_water(t).v
                                 ELSE get_enthalpy_water_ice(t).v))) <= 1

\* ------------------------------------------------------------ C25

\* The rel_hum that from_t_dry_bulb_hum_ratio(t, hr, p) computes.
ComputedRelHum(t_dry_bulb, hum_ratio, pressure) ==
  psychrostate_get_rel_hum_from_vap_pressure(
    t_dry_bulb, get_vap_press_from_hum_ratio(Max(0, hum_ratio), pressure).v)

\* C25: tolerance clamping of the relative humidity.  Whenever
\* from_t_dry_bulb_rel_hum has ended for a rel_hum that is above 1 or below 0
\* only by a rounding error, it has returned a state whose rel_hum is exactly 1
\* or 0; whenever from_t_dry_bulb_hum_ratio has ended for a hum_ratio >= 0
\* whose computed rel_hum is above 1, it has returned a state with rel_hum
\* exactly 1 if the excess is within the tolerance and raised ValueError if
\* it is larger.
C25_RelHumClampedWithinTolerance ==
  /\ (Done /\ op = "HumidAirState.from_t_dry_bulb_rel_hum"
           /\ ((args[2] = HrUnit /\ args[4] > 0) \/ (args[2] = 0 /\ args[4] < 0)))
       => (~Raised(result) /\ result.v.rel_hum = args[2])
  /\ (Done /\ op = "HumidAirState.from_t_dry_bulb_hum_ratio" /\ args[2] >= 0)
       => \A rel_hum \in {ComputedRelHum(args[1], args[2], args[3])},
             sat_vap_pressure \in {psychrostate_get_sat_vap_pressure(args[1])} :
            (~Raised(rel_hum) /\ rel_hum.v > HrUnit)
              => IF rel_hum.v - HrUnit <= rel_hum_rounding(sat_vap_pressure.v, args[3])
                 THEN ~Raised(result) /\ result.v.rel_hum = HrUnit
                 ELSE Raised(result) /\ result.exc = "ValueError"

\* ------------------------------------------------------------ C23

\* C23: a failed root finding is never silent in psychrostate and psychroflow.
\* Whenever a root-finding function has gone on after optimize.root_scalar, it
\* has returned the root if the result had converged; if not, it has raised,
\* it has not returned the last iterate, and the error carries the last
\* residual: it is not the error raised for a different last iterate.
C23_CoreSolversReportFailure ==
  (Done /\ op = "after_root_scalar")
    => \A sol \in {args[1]}, site \in {args[2]} :
         IF sol.converged
         THEN ~Raised(result) /\ result.v = sol.root
         ELSE /\ Raised(result)
              /\ \A other \in RootResults :
                   (~other.converged /\ other.root # sol.root)
                     => after_root_scalar(site, other) # result

\* ------------------------------------------------------------ feuchte_luft.py

\* math.exp(34.494 - 4924.99 / (T + 237.1)) / (T + 105) ** 1.57 for
\* T = -100, -99, ... 101 degC, in 1e-2 Pa.
PartialDruckSatTable ==
  << 2, 2, 2, 2, 2, 2, 3, 3, 3, 3,
     4, 4, 5, 6, 7, 8, 9, 10, 11, 13,
     15, 17, 19, 22, 26, 29, 34, 38, 44, 50,
     57, 65, 74, 84, 96, 109, 124, 140, 159, 180,
     203, 229, 259, 292, 328, 369, 415, 466, 523, 585,
     655, 733, 818, 913, 1018, 1134, 1262, 1403, 1558, 1729,
     1916, 2122, 2349, 2596, 2868, 3165, 3490, 3845, 4232, 4655,
     5115, 5616, 6162, 6755, 7398, 8097, 8855, 9676, 10565, 11527,
     12567, 13691, 14905, 16214, 17625, 19145, 20782, 22544, 24437, 26472,
     28657, 31001, 33515, 36210, 39095, 42184, 45488, 49020, 52794, 56824,
     61125, 65711, 70601, 75810, 81356, 87258, 93535, 100209, 107299, 114828,
     122819, 131296, 140284, 149808, 159897, 170578, 181881, 193835, 206473, 219827,
     233932, 248823, 264535, 281109, 298582, 316995, 336391, 356814, 378308, 400921,
     424700, 449696, 475961, 503547, 532509, 562904, 594792, 628231, 663285, 700017,
     738493, 778782, 820954, 865079, 911234, 959493, 1009935, 1062641, 1117693, 1175176,
     1235178, 1297788, 1363099, 1431203, 1502199, 1576184, 1653262, 1733535, 1817111, 1904099,
     1994610, 2088760, 2186666, 2288447, 2394225, 2504127, 2618281, 2736817, 2859870, 2987576,
     3120074, 3257508, 3400022, 3547766, 3700891, 3859551, 4023903, 4194110, 4370334, 4552742,
     4741504, 4936794, 5138788, 5347665, 5563609, 5786805, 6017443, 6255716, 6501819, 6755951,
     7018316, 7289118, 7568568, 7856878, 8154264, 8460946, 8777145, 9103089, 9439007, 9785131,
     10141699, 10508951 >>

\* Units of the legacy module: temperatur_C and taupunkt in 1e-3 degC,
\* temperatur_K in 1e-3 K, druck and partial_druck_sat in 1e-2 Pa,
\* wasserbeladung and rel_feuchte in 1e-6, spez_enthalpie in J/kg, dichte in
\* 1e-4 kg/m3, massenstrom in 1e-6 kg/s, enthalpie_strom in W.

STANDARD_DRUCK == 10130000

\* An argument that is left out (None), and one that is given: (v,).
None == << >>

Given(v) == <<v>>

\* temperatur_C is within -100 .. 101 degC wherever the code calls it
get_partial_druck_sat(temperatur_C) ==
  Interpolate(PartialDruckSatTable, -100, temperatur_C)

\* R_L / R_W * partial_druck_sat / (druck - partial_druck_sat), R_L / R_W = 0.621967
get_wasserbeladung_sat(partial_druck_sat, druck) ==
  IF druck - partial_druck_sat = 0
  THEN Raise("ZeroDivisionError", "float division by zero", "get_wasserbeladung_sat")
  ELSE Ok(MulDiv(621967, partial_druck_sat, druck - partial_druck_sat))

get_rel_feuchte_from_wasserbeladung(wasserbeladung, wasserbeladung_sat, druck, partial_druck_sat) ==
  IF wasserbeladung < wasserbeladung_sat
  THEN MulDiv(MulDiv(wasserbeladung, druck, 621967 + wasserbeladung), HrUnit,
              partial_druck_sat)
  ELSE HrUnit

get_wasserbeladung_from_rel_feuchte(rel_feuchte, partial_druck_sat, druck) ==
  IF isclose(rel_feuchte, 0) THEN Ok(0)
  ELSE The({ IF quotient - partial_druck_sat = 0
             THEN Raise("ZeroDivisionError", "float division by zero",
                        "get_wasserbeladung_from_rel_feuchte")
             ELSE Ok(MulDiv(621970, partial_druck_sat, quotient - partial_druck_sat))
           : quotient \in {MulDiv(druck, HrUnit, rel_feuchte)} })

\* [wasserbeladung_g, wasserbeladung_fl]
get_wasserbeladungen_g_fl(wasserbeladung, wasserbeladung_sat) ==
  IF wasserbeladung <= wasserbeladung_sat
  THEN <<wasserbeladung, 0>>
  ELSE <<wasserbeladung_sat, wasserbeladung - wasserbeladung_sat>>

\* 1 / (R_L * temperatur_K / druck * (1 + wasserbeladung / 0.62197))
get_dichte_g(temperatur_K, druck, wasserbeladung) ==
  The({ IF dry + MulDiv(dry, wasserbeladung, 621970) = 0
        THEN Raise("ZeroDivisionError", "float division by zero", "get_dichte_g")
        ELSE Ok(MulDiv(druck, 100, dry + MulDiv(dry, wasserbeladung, 621970)))
      : dry \in {MulDiv(28705, temperatur_K, 100000)} })

get_dichte(wasserbeladung, wasserbeladung_sat, dichte_g) ==
  IF wasserbeladung <= wasserbeladung_sat
  THEN dichte_g
  ELSE MulDiv(HrUnit + wasserbeladung, 10^4,
              MulDiv(HrUnit + wasserbeladung_sat, 10^4, dichte_g)
                + MulDiv(wasserbeladung - wasserbeladung_sat, 1, 997))

\* The enthalpy per kg of dry air above the triple point, of get_spez_enthalpie
\* and of fun of get_temp_from_enthalpie.
get_spez_enthalpie(temperatur_C, wasserbeladung, wasserbeladung_sat) ==
  The({ IF wasserbeladung <= wasserbeladung_sat
        THEN MulDiv(10046, temperatur_over_triple, 10000)
               + MulDiv(wasserbeladung,
                        2500900 + MulDiv(1863, temperatur_over_triple, 1000), HrUnit)
        ELSE MulDiv(10046, temperatur_over_triple, 10000)
               + MulDiv(wasserbeladung_sat,
                        2500900 + MulDiv(1863, temperatur_over_triple, 1000), HrUnit)
               + MulDiv(wasserbeladung - wasserbeladung_sat,
                        MulDiv(4191, temperatur_over_triple, 1000), HrUnit)
      : temperatur_over_triple \in {temperatur_C - 10} })

\* The functions handed to optimize.root, each with the values its closure
\* captures:
\*   fun of get_taupunkt: partial_druck_sat * rel_feuchte - partial_druck_sat(temperatur)
\*   fun of get_temp_from_enthalpie: spez_enthalpie - the enthalpy at temperatur_C
feuchte_luft_fun(f, x) ==
  IF f.of = "get_taupunkt"
  THEN Ok(f.partial_druck - get_partial_druck_sat(x))
  ELSE The({ IF Raised(wasserbeladung_sat) THEN wasserbeladung_sat
             ELSE Ok(f.spez_enthalpie
                       - get_spez_enthalpie(x, f.wasserbeladung, wasserbeladung_sat.v))
           : wasserbeladung_sat \in
               {get_wasserbeladung_sat(get_partial_druck_sat(x), f.druck)} })

\* The search of hybr on the temperature grid: an interval with a sign change
\* of fun is halved until its ends are one grid step apart.
RECURSIVE hybr_iterate(_, _, _, _, _)
hybr_iterate(f, lo, flo, hi, fhi) ==
  IF hi - lo <= 1
  THEN Ok([success |-> TRUE, x |-> IF Abs(fhi) < Abs(flo) THEN hi ELSE lo])
  ELSE LET mid == lo + (hi - lo) \div 2
       IN  The({ IF Raised(fmid) THEN fmid
                 ELSE IF fmid.v = 0 THEN Ok([success |-> TRUE, x |-> mid])
                 ELSE IF Sign(fmid.v) = Sign(flo)
                 THEN hybr_iterate(f, mid, fmid.v, hi, fhi)
                 ELSE hybr_iterate(f, lo, flo, mid, fmid.v)
               : fmid \in {feuchte_luft_fun(f, mid)} })

\* The upper end of the temperatures hybr is followed over: 101 degC for the
\* dew point; for the enthalpy the last whole degree below the boiling point at
\* druck, where the saturation load has its pole and fun its jump.
hybr_upper(f) ==
  IF f.of = "get_taupunkt" THEN 101000
  ELSE 1000 * The({ d \in -100..101 :
                      /\ f.druck - get_partial_druck_sat(1000 * d) > get_partial_druck_sat(1000 * d) \div 1000
                      /\ (d = 101 \/ f.druck - get_partial_druck_sat(1000 * (d + 1)) <= get_partial_druck_sat(1000 * (d + 1)) \div 1000) })

\* sol = optimize.root(fun, x0=..., method="hybr"): success with a root where
\* fun has one from -100 degC to hybr_upper; if it has none, hybr reports no
\* success and sol.x[0] is the iterate it has stopped at, last.
hybr(f, last) ==
  The({ IF Raised(flo) THEN flo
        ELSE The({ IF Raised(fhi) THEN fhi
                   ELSE IF flo.v = 0 THEN Ok([success |-> TRUE, x |-> -100000])
                   ELSE IF fhi.v = 0 THEN Ok([success |-> TRUE, x |-> upper])
                   ELSE IF Sign(flo.v) = Sign(fhi.v)
                   THEN Ok([success |-> FALSE, x |-> last])
                   ELSE hybr_iterate(f, -100000, flo.v, upper, fhi.v)
                 : fhi \in {feuchte_luft_fun(f, hybr_upper(f))},
                   upper \in {hybr_upper(f)} })
      : flo \in {feuchte_luft_fun(f, -100000)} })

\* The statements after sol = optimize.root(...): get_taupunkt and
\* how_much_enthalpie_to_temp return sol.x[0], get_temp_from_enthalpie returns
\* it if it lies from -100 to 100 degC; none reads sol.success.
after_root(site, sol) ==
  IF site = "get_temp_from_enthalpie" /\ ~(-100000 <= sol.x /\ sol.x <= 100000)
  THEN Raise("AttributeError", "-100<= Temperature <=100", "get_temp_from_enthalpie")
  ELSE Ok(sol.x)

\* partial_druck_sat is not close to 0 from -100 to 100 degC
get_taupunkt(partial_druck_sat, rel_feuchte, temperatur_C, last) ==
  IF isclose(partial_druck_sat, 0)
  THEN Ok(-get_partial_druck_sat(temperatur_C))
  ELSE The({ IF Raised(sol) THEN sol ELSE after_root("get_taupunkt", sol.v)
           : sol \in {hybr([of |-> "get_taupunkt",
                            partial_druck |-> MulDiv(partial_druck_sat, rel_feuchte, HrUnit)],
                           last)} })

get_temp_from_enthalpie(wasserbeladung, spez_enthalpie, druck, last) ==
  The({ IF Raised(sol) THEN sol ELSE after_root("get_temp_from_enthalpie", sol.v)
      : sol \in {hybr([of |-> "get_temp_from_enthalpie", wasserbeladung |-> wasserbeladung,
                       spez_enthalpie |-> spez_enthalpie, druck |-> druck],
                      last)} })

\* __init__ with temperatur_C and rel_feuchte, after the range check
from_temperatur_rel_feuchte(temperatur_C, rel_feuchte, druck, last) ==
  The({
    The({ IF Raised(wasserbeladung_sat) THEN wasserbeladung_sat
          ELSE IF Raised(taupunkt) THEN taupunkt
          ELSE IF Raised(wasserbeladung) THEN wasserbeladung
          ELSE
          The({ IF Raised(dichte_g) THEN dichte_g
                ELSE Ok([druck |-> druck,
                         temperatur_C |-> temperatur_C,
                         temperatur_K |-> temperatur_C + 273150,
                         rel_feuchte |-> rel_feuchte,
                         partial_druck_sat |-> partial_druck_sat,
                         wasserbeladung_sat |-> wasserbeladung_sat.v,
                         taupunkt |-> taupunkt.v,
                         wasserbeladung |-> wasserbeladung.v,
                         wasserbeladung_g |-> g_fl[1],
                         wasserbeladung_fl |-> g_fl[2],
                         dichte_g |-> dichte_g.v,
                         dichte |-> get_dichte(wasserbeladung.v, wasserbeladung_sat.v,
                                               dichte_g.v),
                         spez_enthalpie |-> get_spez_enthalpie(temperatur_C, wasserbeladung.v,
                                                               wasserbeladung_sat.v)])
              : g_fl \in {get_wasserbeladungen_g_fl(wasserbeladung.v, wasserbeladung_sat.v)},
                dichte_g \in {get_dichte_g(temperatur_C + 273150, druck, wasserbeladung.v)} })
        : wasserbeladung_sat \in {get_wasserbeladung_sat(partial_druck_sat, druck)},
          taupunkt \in {get_taupunkt(partial_druck_sat, rel_feuchte, temperatur_C, last)},
          wasserbeladung \in
            {get_wasserbeladung_from_rel_feuchte(rel_feuchte, partial_druck_sat, druck)} })
    : partial_druck_sat \in {get_partial_druck_sat(temperatur_C)} })

\* The statements that end __init__ with temperatur_C and wasserbeladung known:
\* partial_druck_sat, wasserbeladung_sat, the split, rel_feuchte, taupunkt and
\* the densities; spez_enthalpie is the one given or, if none, get_spez_enthalpie()
from_temperatur_wasserbeladung(temperatur_C, wasserbeladung, spez_enthalpie, druck, last) ==
  The({
    The({ IF Raised(wasserbeladung_sat) THEN wasserbeladung_sat
          ELSE
          The({
            The({ IF Raised(taupunkt) THEN taupunkt
                  ELSE IF Raised(dichte_g) THEN dichte_g
                  ELSE Ok([druck |-> druck,
                           temperatur_C |-> temperatur_C,
                           temperatur_K |-> temperatur_C + 273150,
                           rel_feuchte |-> rel_feuchte,
                           partial_druck_sat |-> partial_druck_sat,
                           wasserbeladung_sat |-> wasserbeladung_sat.v,
                           taupunkt |-> taupunkt.v,
                           wasserbeladung |-> wasserbeladung,
                           wasserbeladung_g |-> g_fl[1],
                           wasserbeladung_fl |-> g_fl[2],
                           dichte_g |-> dichte_g.v,
                           dichte |-> get_dichte(wasserbeladung, wasserbeladung_sat.v,
                                                 dichte_g.v),
                           spez_enthalpie |->
                             IF spez_enthalpie # None THEN spez_enthalpie[1]
                             ELSE get_spez_enthalpie(temperatur_C, wasserbeladung,
                                                     wasserbeladung_sat.v)])
                : g_fl \in {get_wasserbeladungen_g_fl(wasserbeladung, wasserbeladung_sat.v)},
                  taupunkt \in
                    {get_taupunkt(partial_druck_sat, rel_feuchte, temperatur_C, last)},
                  dichte_g \in {get_dichte_g(temperatur_C + 273150, druck, wasserbeladung)} })
            : rel_feuchte \in
                {get_rel_feuchte_from_wasserbeladung(wasserbeladung, wasserbeladung_sat.v,
                                                     druck, partial_druck_sat)} })
        : wasserbeladung_sat \in {get_wasserbeladung_sat(partial_druck_sat, druck)} })
    : partial_druck_sat \in {get_partial_druck_sat(temperatur_C)} })

\* humid_air_state whose first pattern does not ask whether wasserbeladung was
\* omitted, and which takes any temperatur_C.
humid_air_state_lenient(temperatur_C, rel_feuchte, wasserbeladung, spez_enthalpie, druck, last) ==
  IF temperatur_C # None /\ rel_feuchte # None /\ spez_enthalpie = None
  THEN from_temperatur_rel_feuchte(Max(-100000, Min(100000, temperatur_C[1])),
                                   rel_feuchte[1], druck, last)
  ELSE IF temperatur_C = None /\ rel_feuchte = None /\ wasserbeladung # None
            /\ spez_enthalpie # None
  THEN The({ IF Raised(temperatur) THEN temperatur
             ELSE from_temperatur_wasserbeladung(temperatur.v, wasserbeladung[1],
                                                 spez_enthalpie, druck, last)
           : temperatur \in
               {get_temp_from_enthalpie(wasserbeladung[1], spez_enthalpie[1], druck, last)} })
  ELSE IF temperatur_C # None /\ rel_feuchte = None /\ wasserbeladung # None
            /\ spez_enthalpie = None
  THEN IF ~(-100000 <= temperatur_C[1] /\ temperatur_C[1] <= 100000)
       THEN Raise("AttributeError", "-100 <= temperatur_C <= 100", "humid_air_state")
       ELSE from_temperatur_wasserbeladung(temperatur_C[1], wasserbeladung[1], None, druck,
                                           last)
  ELSE Raise("AttributeError",
             "either Temp and rel_feuchte or wasserbeladung und spez_enthalpie or wasserbeladung and temperatur",
             "humid_air_state")

\* humid_air_state(temperatur_C, rel_feuchte, wasserbeladung, spez_enthalpie,
\* druck): each of the first four is None or Given(v)
humid_air_state(temperatur_C, rel_feuchte, wasserbeladung, spez_enthalpie, druck, last) ==
  IF temperatur_C # None /\ rel_feuchte # None /\ wasserbeladung = None
       /\ spez_enthalpie = None
  THEN IF ~(-100000 <= temperatur_C[1] /\ temperatur_C[1] <= 100000)
       THEN Raise("AttributeError", "-100 <= temperatur_C <= 100", "humid_air_state")
       ELSE from_temperatur_rel_feuchte(temperatur_C[1], rel_feuchte[1], druck, last)
  ELSE IF temperatur_C = None /\ rel_feuchte = None /\ wasserbeladung # None
            /\ spez_enthalpie # None
  THEN The({ IF Raised(temperatur) THEN temperatur
             ELSE from_temperatur_wasserbeladung(temperatur.v, wasserbeladung[1],
                                                 spez_enthalpie, druck, last)
           : temperatur \in
               {get_temp_from_enthalpie(wasserbeladung[1], spez_enthalpie[1], druck, last)} })
  ELSE IF temperatur_C # None /\ rel_feuchte = None /\ wasserbeladung # None
            /\ spez_enthalpie = None
  THEN IF ~(-100000 <= temperatur_C[1] /\ temperatur_C[1] <= 100000)
       THEN Raise("AttributeError", "-100 <= temperatur_C <= 100", "humid_air_state")
       ELSE from_temperatur_wasserbeladung(temperatur_C[1], wasserbeladung[1], None, druck,
                                           last)
  ELSE Raise("AttributeError",
             "either Temp and rel_feuchte or wasserbeladung und spez_enthalpie or wasserbeladung and temperatur",
             "humid_air_state")

\* water_stream(temperatur_C, massenstrom, volumenstrom), DICHTE_WASSER_FL = 997
water_stream(temperatur_C, massenstrom, volumenstrom) ==
  IF (massenstrom = None) = (volumenstrom = None)
  THEN Raise("AttributeError", "either volumenstrom or massenstrom", "water_stream")
  ELSE The({ Ok([temperatur_C |-> temperatur_C,
                 temperatur_K |-> temperatur_C + 273150,
                 massenstrom |-> m,
                 volumenstrom |-> IF volumenstrom # None THEN volumenstrom[1]
                                  ELSE MulDiv(m, 1, 997),
                 enthalpie_strom |-> MulDiv(MulDiv(4191, temperatur_C - 10, 1000), m, MassUnit)])
           : m \in { IF massenstrom # None THEN massenstrom[1]
                     ELSE volumenstrom[1] * 997 } })

\* humid_air_stream(humid_air_state, volumenstrom, massenstrom), volumenstrom in
\* 1e-6 m3/s
humid_air_stream(state, volumenstrom, massenstrom) ==
  IF (volumenstrom = None) = (massenstrom = None)
  THEN Raise("AttributeError", "either massenstrom oder volumenstrom required",
             "humid_air_stream")
  ELSE IF volumenstrom = None /\ state.dichte = 0
  THEN Raise("ZeroDivisionError", "float division by zero", "humid_air_stream")
  ELSE IF HrUnit + state.wasserbeladung = 0
  THEN Raise("ZeroDivisionError", "float division by zero", "humid_air_stream")
  ELSE
  The({
    The({ Ok([humid_air_state |-> state,
              volumenstrom |-> IF volumenstrom # None THEN volumenstrom[1]
                               ELSE MulDiv(m, 10^4, state.dichte),
              massenstrom |-> m,
              massenstrom_luft |-> luft,
              massenstrom_wasser |-> MulDiv(luft, state.wasserbeladung, HrUnit),
              massenstrom_wasser_g |-> MulDiv(luft, state.wasserbeladung_g, HrUnit),
              massenstrom_wasser_fl |-> MulDiv(luft, state.wasserbeladung_fl, HrUnit),
              enthalpie_strom |-> MulDiv(luft, state.spez_enthalpie, MassUnit)])
        : luft \in {MulDiv(m, HrUnit, HrUnit + state.wasserbeladung)} })
    : m \in { IF massenstrom # None THEN massenstrom[1]
              ELSE MulDiv(volumenstrom[1], state.dichte, 10^4) } })

\* humid_air_state(temperatur_C=self.temperatur_C, rel_feuchte=self.rel_feuchte):
\* no druck is handed over
ohne_fluessigkeit(self, last) ==
  humid_air_state(Given(self.temperatur_C), Given(self.rel_feuchte), None, None,
                  STANDARD_DRUCK, last)

\* [gas, fluessigkeit]
split_into_gas_and_fluessig(self, last) ==
  The({ IF Raised(state) THEN state
        ELSE The({ IF Raised(gas) THEN gas
                   ELSE IF Raised(fluessigkeit) THEN fluessigkeit
                   ELSE Ok(<<gas.v, fluessigkeit.v>>)
                 : gas \in {humid_air_stream(
                              state.v, None,
                              Given(self.massenstrom - self.massenstrom_wasser_fl))},
                   fluessigkeit \in {water_stream(self.humid_air_state.temperatur_C,
                                                  Given(self.massenstrom_wasser_fl), None)} })
      : state \in {ohne_fluessigkeit(self.humid_air_state, last)} })

\* humid_air_state(wasserbeladung=..., spez_enthalpie=...): no druck is handed over
with_added_enthalpie(self, enthalpie_change, last) ==
  IF self.massenstrom_luft = 0
  THEN Raise("ZeroDivisionError", "float division by zero", "with_added_enthalpie")
  ELSE The({ IF Raised(state) THEN state
             ELSE humid_air_stream(state.v, None, Given(self.massenstrom))
           : state \in
               {humid_air_state(
                  None, None, Given(self.humid_air_state.wasserbeladung),
                  Given(self.humid_air_state.spez_enthalpie
                          + MulDiv(enthalpie_change, MassUnit, self.massenstrom_luft)),
                  STANDARD_DRUCK, last)} })

\* humid_air_state(temperatur_C=..., wasserbeladung=...): no druck is handed over
with_temperatur_C(self, temperatur_C, last) ==
  The({ IF Raised(state) THEN state
        ELSE humid_air_stream(state.v, None, Given(self.massenstrom))
      : state \in
          {humid_air_state(Given(temperatur_C), None,
                           Given(self.humid_air_state.wasserbeladung), None,
                           STANDARD_DRUCK, last)} })

\* humid_air_state(wasserbeladung=..., spez_enthalpie=...): no druck is handed over
add_enthalpie_to_air_stream(stream, enthalpie_change, last) ==
  IF stream.massenstrom_luft = 0
  THEN Raise("ZeroDivisionError", "float division by zero", "add_enthalpie_to_air_stream")
  ELSE The({ IF Raised(state) THEN state
             ELSE humid_air_stream(state.v, None, Given(stream.massenstrom))
           : state \in
               {humid_air_state(
                  None, None, Given(stream.humid_air_state.wasserbeladung),
                  Given(stream.humid_air_state.spez_enthalpie
                          + MulDiv(enthalpie_change, MassUnit, stream.massenstrom_luft)),
                  STANDARD_DRUCK, last)} })

\* ------------------------------------------------------------ legacy calls

\* The arguments of humid_air_state: both sides of the limits -100 and 100 degC
\* and values in between; 0 %, 30 % and 100 %; dry air, 7 g/kg and 50 g/kg; an
\* enthalpy below, two within and one above what -100 .. 100 degC can hold.
LegacyTemperatures == {-100001, -100000, -10000, 20000, 100000, 100001}

LegacyRelFeuchten == {0, 300000, 1000000}

LegacyWasserbeladungen == {0, 7263, 50000}

LegacyEnthalpien == {-200000, 20000, 38517, 5000000}

LegacyDruecke == {9000000, STANDARD_DRUCK}

\* The iterate hybr stops at when it finds no root: the start value of
\* get_taupunkt, and a temperature out of range.
LastIterates == {20000, 150000}

\* None or Given(v) for the v of S
Optional(S) == {None} \cup { Given(v) : v \in S }

\* state = humid_air_state(...) with any of the four arguments given or left
\* out; the caller holds state
CallHumidAirState ==
  /\ pc = "start"
  /\ \E temperatur_C \in Optional(LegacyTemperatures),
        rel_feuchte \in Optional(LegacyRelFeuchten),
        wasserbeladung \in Optional(LegacyWasserbeladungen),
        spez_enthalpie \in Optional(LegacyEnthalpien),
        druck \in LegacyDruecke, last \in LastIterates :
       \E r \in {humid_air_state(temperatur_C, rel_feuchte, wasserbeladung, spez_enthalpie,
                                 druck, last)} :
         /\ Return("humid_air_state",
                   <<temperatur_C, rel_feuchte, wasserbeladung, spez_enthalpie, druck, last>>,
                   r)
         /\ held' = IF Raised(r) THEN NoState ELSE r.v

\* The streams a caller builds from the state it holds:
\* humid_air_stream(state, volumenstrom=...), 10000 m3/h and 24000 m3/h
StreamsOf(state) ==
  { humid_air_stream(state, Given(volumenstrom), None).v
      : volumenstrom \in {2777778, 6666667} }

\* The state has been constructed and the caller holds it; streams are built of
\* air below the boiling point of water (at its druck and at STANDARD_DRUCK).
HoldsState ==
  /\ pc = "done" /\ op = "humid_air_state" /\ held # NoState
  /\ held.partial_druck_sat < Min(held.druck, STANDARD_DRUCK)

\* humid_air_stream(state, ...).with_added_enthalpie(enthalpie_change)
CallWithAddedEnthalpie ==
  /\ HoldsState
  /\ \E stream \in StreamsOf(held), enthalpie_change \in {-10000, 0, 50000},
        last \in LastIterates :
       Return("with_added_enthalpie", <<stream, enthalpie_change>>,
              with_added_enthalpie(stream, enthalpie_change, last))
  /\ UNCHANGED held

\* humid_air_stream(state, ...).with_temperatur_C(temperatur_C)
CallWithTemperaturC ==
  /\ HoldsState
  /\ \E stream \in StreamsOf(held), temperatur_C \in {5000, 30000}, last \in LastIterates :
       Return("with_temperatur_C", <<stream, temperatur_C>>,
              with_temperatur_C(stream, temperatur_C, last))
  /\ UNCHANGED held

\* add_enthalpie_to_air_stream(humid_air_stream(state, ...), enthalpie_change)
CallAddEnthalpieToAirStream ==
  /\ HoldsState
  /\ \E stream \in StreamsOf(held), enthalpie_change \in {-10000, 0, 50000},
        last \in LastIterates :
       Return("add_enthalpie_to_air_stream", <<stream, enthalpie_change>>,
              add_enthalpie_to_air_stream(stream, enthalpie_change, last))
  /\ UNCHANGED held

\* humid_air_stream(state, ...).split_into_gas_and_fluessig()
CallSplitIntoGasAndFluessig ==
  /\ HoldsState
  /\ \E stream \in StreamsOf(held), last \in LastIterates :
       Return("split_into_gas_and_fluessig", <<stream>>,
              split_into_gas_and_fluessig(stream, last))
  /\ UNCHANGED held

\* The functions of feuchte_luft that call optimize.root.
LegacySolverSites == {"get_taupunkt", "get_temp_from_enthalpie", "how_much_enthalpie_to_temp"}

\* The OptimizeResult that optimize.root hands back: success with a root, or no
\* success with the last iterate.
OptimizeResults == [success : BOOLEAN, x : {-150000, 9268, 20000}]

\* A function of feuchte_luft goes on after optimize.root has handed back sol.
ReturnAfterRoot ==
  /\ pc = "start"
  /\ \E site \in LegacySolverSites, sol \in OptimizeResults :
       Return("after_root", <<sol, site>>, after_root(site, sol))
  /\ UNCHANGED held

LegacyNext ==
  \/ CallHumidAirState
  \/ CallWithAddedEnthalpie
  \/ CallWithTemperaturC
  \/ CallAddEnthalpieToAirStream
  \/ CallSplitIntoGasAndFluessig
  \/ ReturnAfterRoot

LegacySpec == LibInit /\ [][LegacyNext]_vars
\* ------------------------------------------------------------ C24

\* C24: a failed root finding is never silent in feuchte_luft. Whenever
\* get_taupunkt, get_temp_from_enthalpie or how_much_enthalpie_to_temp has gone
\* on after optimize.root handed back a result without success, it has raised:
\* it has not returned the last iterate.
C24_LegacySolversReportFailure ==
  (Done /\ op = "after_root")
    => \A sol \in {args[1]} : ~sol.success => Raised(result)

\* ------------------------------------------------------------ C30

\* The three pairs of parameters humid_air_state is built from, as
\* <<temperatur_C, rel_feuchte, wasserbeladung, spez_enthalpie>> given or not.
AcceptedPatterns ==
  { <<TRUE, TRUE, FALSE, FALSE>>, <<FALSE, FALSE, TRUE, TRUE>>, <<TRUE, FALSE, TRUE, FALSE>> }

\* The attributes of a humid_air_state.
DerivedFields ==
  { "druck", "temperatur_C", "temperatur_K", "rel_feuchte", "partial_druck_sat",
    "wasserbeladung_sat", "taupunkt", "wasserbeladung", "wasserbeladung_g",
    "wasserbeladung_fl", "dichte_g", "dichte", "spez_enthalpie" }

\* C30: humid_air_state(...) has succeeded only if exactly one of the three
\* pairs was given and the other two parameters were omitted; every other
\* combination of given and omitted parameters has raised AttributeError, a
\* given temperatur_C outside -100 .. 100 degC has raised AttributeError, and
\* after a success every attribute of the state holds a number.
C30_ConstructorAcceptsThreePairs ==
  (Done /\ op = "humid_air_state")
    => \A given \in {<<args[1] # None, args[2] # None, args[3] # None, args[4] # None>>} :
         /\ ~Raised(result) => given \in AcceptedPatterns
         /\ given \notin AcceptedPatterns
              => Raised(result) /\ result.exc = "AttributeError"
         /\ (args[1] # None /\ ~(-100000 <= args[1][1] /\ args[1][1] <= 100000))
              => Raised(result) /\ result.exc = "AttributeError"
         /\ ~Raised(result)
              => /\ DOMAIN result.v = DerivedFields
                 /\ \A field \in DerivedFields : result.v[field] \in Int

\* A state has been built from wasserbeladung and spez_enthalpie.
C30_Witness ==
  /\ Done /\ op = "humid_air_state" /\ ~Raised(result)
  /\ args[1] = None /\ args[2] = None /\ args[3] # None /\ args[4] # None
  /\ result.v.wasserbeladung = args[3][1]

\* ------------------------------------------------------------ objects
\*
\* HumidAirFlow is declared with a plain @dataclass: its instances are objects
\* whose attributes the caller can assign.  After mix_humid_air_flows has
\* returned, the caller holds the flows of the list and the flow returned.

\* The values the caller assigns to volume_flow.
AssignedVolumeFlows == {0, 1000000}

\* haf_out.volume_flow = v on the flow returned: the object takes the value,
\* and so does the flow of the list if it is the same object.
AssignResult ==
  /\ Returned /\ op = "mix_humid_air_flows"
  /\ \E v \in AssignedVolumeFlows :
       /\ result' = [result EXCEPT !.v.volume_flow = v]
       /\ hafs_in' = IF alias = 0 THEN hafs_in
                     ELSE [hafs_in EXCEPT ![alias].volume_flow = v]
  /\ pc' = "assigned"
  /\ UNCHANGED <<wf_in, op, i, haf_out, rootfinds, args, held, alias>>

\* hafs_in[k].volume_flow = v on a flow of the list: the object takes the value,
\* and so does the flow returned if it is the same object.
AssignInput ==
  /\ Returned /\ op = "mix_humid_air_flows"
  /\ \E k \in 1..Len(hafs_in), v \in AssignedVolumeFlows :
       /\ hafs_in' = [hafs_in EXCEPT ![k].volume_flow = v]
       /\ result' = IF alias = k THEN [result EXCEPT !.v.volume_flow = v] ELSE result
  /\ pc' = "assigned"
  /\ UNCHANGED <<wf_in, op, i, haf_out, rootfinds, args, held, alias>>

ObjNext ==
  \/ Next
  \/ AssignResult
  \/ AssignInput

ObjSpec == Init /\ [][ObjNext]_vars

\* ------------------------------------------------------------ C21

\* C21: flows are immutable and mixing results are independent of the inputs.
\* The flow mix_humid_air_flows returns is never one of the objects of the list
\* it was given, a list of one flow included; no step of an operation changes a
\* flow of the list; and once the operation has returned, neither a flow of the
\* list nor the flow returned ever changes: an assignment to it is rejected.
C21_ImmutableAndIndependent ==
  /\ []((Returned /\ op = "mix_humid_air_flows") => alias = 0)
  /\ [][hafs_in' = hafs_in /\ (Done => result' = result)]_vars


====
